---- MODULE Spec2Model ----
(***************************************************************************)
(* repo-manager.js: one run of the command-line tool.  A run parses its    *)
(* arguments (main), enters one command function, loops over the selected  *)
(* service repositories issuing external commands, prints a summary and    *)
(* exits.  External commands (git, composer, npm, gh, rg) are modelled by  *)
(* their exit status, which depends on the state of the repository and on  *)
(* an environment fault that makes one named command fail.                 *)
(***************************************************************************)
EXTENDS Integers, Sequences, FiniteSets, TLC

\* At most this many repositories of a run deviate from the normal
\* environment (existing, clean, on a feature branch, no failing command).
MaxAbnormal == 1

\* Lines in an output of git branch -a.
MaxLines == 4

\* pull requests one repository lists
MaxPRs == 2

VARIABLES
    argv,      \* process.argv.slice(2), repo-root flags already removed
    isRoot,    \* `id -u` prints 0
    VERBOSE,   \* the global verbose flag
    pc,        \* position of the run: "main", "call", "confirm", "loop", "exit"
    exitCode,  \* process exit status; -1 while the run is in progress
    sel,       \* Object.entries(servicesTo...) of the running command
    invoked,   \* names of the services whose loop body has been entered
    results,   \* the command's `results` array
    last,      \* the last loop iteration: service, environment, commands issued, records pushed
    shown,     \* lines written to the terminal
    prompts,   \* number of confirmation questions asked
    confirm,   \* the answer typed at the confirmation question
    outcome,   \* how the command function ended
    abnormal,  \* number of repositories met so far that deviate from Normal
    files,     \* files written by the run, as records of path and data
    prsByTicket, \* the groups of listAllPullRequests, in the order of their creation
    config,    \* where a repository root is configured: flags, environment, files
    ai,        \* what the analysis of a review finds: the AI module loaded, the API
               \* key, how the request to the API ends, whether /tmp can be written
    REPO_ROOT  \* the repository root the services are initialized with

vars == <<argv, isRoot, VERBOSE, pc, exitCode, sel, invoked, results, last,
          shown, prompts, confirm, outcome, abnormal, files, prsByTicket, config, REPO_ROOT, ai>>

----------------------------------------------------------------------------
\* JavaScript values

Undefined == "<undefined>"

Truthy(v) == v \notin {Undefined, ""}

Concat(s, t) == s \o t

\* args[k] of a JavaScript array (0-based); undefined past the end
Arg(args, k) == IF k + 1 <= Len(args) THEN args[k + 1] ELSE Undefined

Includes(args, a) == \E k \in 1..Len(args) : args[k] = a

RECURSIVE Without(_, _)
\* args with the first occurrence of a spliced out
Without(args, a) ==
    IF args = <<>> THEN <<>>
    ELSE IF Head(args) = a THEN Tail(args)
    ELSE <<Head(args)>> \o Without(Tail(args), a)

Has(r, f) == f \in DOMAIN r

\* r => r.success
IsSuccess(r) == Has(r, "success") /\ r.success = TRUE

\* r => !r.success
IsFailure(r) == ~IsSuccess(r)

----------------------------------------------------------------------------
\* Service registry

ServiceNames ==
    <<"ads", "emails", "frontend", "images", "integrations",
      "intelligence", "sms", "social", "templates", "users">>

Directory(name) ==
    CASE name = "ads" -> "microAds/"
      [] name = "emails" -> "microEmails/"
      [] name = "frontend" -> "microFrontend/"
      [] name = "images" -> "microImages/"
      [] name = "integrations" -> "microIntegrations/"
      [] name = "intelligence" -> "microIntelligence/"
      [] name = "sms" -> "microSms/"
      [] name = "social" -> "microSocial/"
      [] name = "templates" -> "microTemplates/"
      [] name = "users" -> "microUsers/"

\* the object built by initializeServices()
services == [n \in {ServiceNames[k] : k \in 1..Len(ServiceNames)} |-> Directory(n)]

\* the value of a property every object literal inherits from Object.prototype,
\* such as `constructor`
InheritedFunction == "[Function]"

\* services[serviceName]
Lookup(serviceName) ==
    IF serviceName \in DOMAIN services THEN services[serviceName]
    ELSE IF serviceName = "constructor" THEN InheritedFunction
    ELSE Undefined

\* Object.entries(services): insertion order
Entries == [k \in 1..Len(ServiceNames) |->
               [name |-> ServiceNames[k], path |-> services[ServiceNames[k]]]]

\* serviceName ? { [serviceName]: services[serviceName] } : services
ServicesTo(serviceName) ==
    IF Truthy(serviceName)
    THEN <<[name |-> serviceName, path |-> Lookup(serviceName)]>>
    ELSE Entries

\* serviceName && !services[serviceName]
NotFound(serviceName) == Truthy(serviceName) /\ ~Truthy(Lookup(serviceName))

NotFoundLine(serviceName) == Concat("Error: Service '", Concat(serviceName, "' not found"))

----------------------------------------------------------------------------
\* Terminal output

\* log(message, color, forceShow)
log(message, forceShow, verbose) == IF verbose \/ forceShow THEN {message} ELSE {}

----------------------------------------------------------------------------
\* External commands

\* The repository a loop iteration works on, as the external commands see it.
\*   exists    fs.existsSync(repoPath)
\*   dirty     tracked files differ from HEAD (git diff-index --quiet exits 1)
\*   untracked git ls-files --others prints something
\*   remote    origin/<target branch> exists
\*   branch    the checked-out branch
\*   upstream  the checked-out branch has an upstream
\*   taken     the branch REN-<ticket> already exists
\*   stash     the stash has entries
\*   composer, package   composer.json / package.json exist
\*   staged    git diff --cached --numstat prints something
\*   porcelain the lines of git status --porcelain
\*   revlist   the tab-separated fields of git rev-list --left-right --count
\*   listing   the lines of git branch -a, each a sequence of pieces of text
\*   prs       the pull requests gh pr list prints, each with its number, its
\*             title and head branch as sequences of characters, its date and
\*             its state
\*   fault     the command line that fails for a reason of the environment
Normal ==
    [exists |-> TRUE, dirty |-> FALSE, untracked |-> FALSE, remote |-> TRUE,
     branch |-> "REN-1", upstream |-> TRUE, taken |-> FALSE, stash |-> TRUE,
     composer |-> TRUE, package |-> TRUE, staged |-> FALSE, porcelain |-> <<>>,
     revlist |-> <<"0", "0">>,
     listing |-> <<<<"*", " ", "REN-1">>, <<" ", " ", "dev">>,
                   <<" ", " ", "remotes/origin/", "dev">>>>,
     prs |-> <<[number |-> 9, title |-> <<"R", "E", "N", "-", "1", "2">>,
                headRefName |-> <<"d", "e", "v">>, createdAt |-> 3, state |-> "OPEN"]>>,
     fault |-> "none"]

Missing == [Normal EXCEPT !.exists = FALSE]

\* git run as the invoking user
gitDirectly(command) == Concat("git ", command)

\* gitCommand(repoPath, command): the command line handed to execSync
gitCommand(command) == Concat("sudo -u www-data git ", command)

RevParseHead == gitCommand("rev-parse --abbrev-ref HEAD")
DiffIndex == gitCommand("diff-index --quiet HEAD --")
AutoStash == gitCommand("stash push -m \"Auto-stash before branch update <ISO time>\"")
VerifyRemote(targetBranch) == gitCommand(Concat("rev-parse --verify origin/", targetBranch))
Checkout(branch) == gitCommand(Concat("checkout ", branch))

\* execCommand: the message of the Error thrown on a non-zero exit
CommandFailed(c) == Concat("Command failed: ", c)

\* How the code around a command treats its failure.
Throw == "<throw>"
Ignore == "<ignore>"

\* One external command of an operation: its command line, whether the state
\* of the repository makes it exit non-zero, and the catch around it.
Cmd(c, exitsNonZero, catch) == [cmd |-> c, fails |-> exitsNonZero, catch |-> catch]

\* exit status of step s in repository e: non-zero
Fails(e, s) == s.fails \/ e.fault = s.cmd

NoError == "<none>"

RECURSIVE Run(_, _)
\* Issue the command lines of plan in order, in repository e, until one fails
\* and its failure is not swallowed (catch = Ignore); a catch that is a text
\* rethrows with that text.  [cmds: the lines issued, error: the message thrown]
Run(plan, e) ==
    IF plan = <<>> THEN [cmds |-> <<>>, error |-> NoError]
    ELSE LET s == Head(plan) IN
         IF Fails(e, s) /\ s.catch # Ignore
         THEN [cmds |-> <<s.cmd>>,
               error |-> IF s.catch = Throw THEN CommandFailed(s.cmd) ELSE s.catch]
         ELSE LET r == Run(Tail(plan), e)
              IN  [cmds |-> <<s.cmd>> \o r.cmds, error |-> r.error]

\* fs.existsSync(path): false for a path that is no string
existsSync(path, e) == path # InheritedFunction /\ e.exists

DirectoryNotFound == "Directory not found"

\* What one loop iteration hands back: the command lines it issued, the
\* records it pushed on `results`, the lines it printed, and whether an
\* exception left the loop body.
Iteration(cmds, recs, out) == [cmds |-> cmds, recs |-> recs, out |-> out, threw |-> FALSE]

Escaped(cmds, error) == [cmds |-> cmds, recs |-> <<>>, out |-> {}, threw |-> TRUE]

----------------------------------------------------------------------------
\* update <branch> [service]

ComposerLine(serviceName, useUpdate) ==
    LET command == IF useUpdate THEN "update" ELSE "install"
        tail == Concat(command, " --no-interaction")
    IN  IF serviceName \in {"users", "images"}
        THEN Concat("sudo -u www-data composer ", tail)
        ELSE IF serviceName \in {"emails", "frontend", "integrations", "sms", "templates"}
        THEN Concat("sudo -u www-data /usr/bin/php8.2 /usr/local/bin/composer26 ", tail)
        ELSE IF serviceName \in {"ads", "social"}
        THEN Concat("sudo -u www-data /usr/bin/php8.1 /usr/local/bin/composer26 ", tail)
        ELSE Concat("sudo -u www-data composer ", tail)


\* updateDependencies: one try block around both installers, its catch only warns
updateDependencies(serviceName, e, useUpdate) ==
    LET composer == Cmd(ComposerLine(serviceName, useUpdate), FALSE, Ignore)
        composerThrew == e.composer /\ Fails(e, composer)
    IN  (IF e.composer THEN <<composer>> ELSE <<>>)
        \o (IF e.package /\ serviceName = "intelligence" /\ ~composerThrew
            THEN <<Cmd("sudo -u www-data npm install", FALSE, Ignore)>> ELSE <<>>)

NotInRemote(targetBranch) ==
    Concat("Branch '", Concat(targetBranch, "' does not exist in remote"))

\* the check of the remote branch with its failure swallowed
verifyRemoteSwallowed(e, targetBranch) ==
    Cmd(VerifyRemote(targetBranch), ~e.remote, Ignore)

\* the check of the remote branch: its catch rethrows "does not exist in remote"
verifyRemote(e, targetBranch) ==
    Cmd(VerifyRemote(targetBranch), ~e.remote, NotInRemote(targetBranch))

\* the steps with the stash pushed after the fetch
updateStepsFetchFirst(serviceName, e, targetBranch, useComposerUpdate, skipDeps) ==
    LET diffIndex == Cmd(DiffIndex, e.dirty, Ignore)
    IN  <<Cmd(RevParseHead, FALSE, Throw), diffIndex, Cmd(gitCommand("fetch"), FALSE, Throw)>>
        \o (IF Fails(e, diffIndex) THEN <<Cmd(AutoStash, FALSE, Throw)>> ELSE <<>>)
        \o <<verifyRemote(e, targetBranch),
             Cmd(Checkout(targetBranch), FALSE, Throw),
             Cmd(gitCommand("pull"), FALSE, Throw),
             Cmd(gitCommand("log -1 --pretty=format:\"%h - %s (%cr)\""), FALSE, Throw)>>

\* the steps with the stash popped after the pull
updateStepsPopping(serviceName, e, targetBranch, useComposerUpdate, skipDeps) ==
    LET diffIndex == Cmd(DiffIndex, e.dirty, Ignore)
    IN  <<Cmd(RevParseHead, FALSE, Throw), diffIndex>>
        \o (IF Fails(e, diffIndex) THEN <<Cmd(AutoStash, FALSE, Throw)>> ELSE <<>>)
        \o <<Cmd(gitCommand("fetch"), FALSE, Throw),
             verifyRemote(e, targetBranch),
             Cmd(Checkout(targetBranch), FALSE, Throw),
             Cmd(gitCommand("pull"), FALSE, Throw)>>
        \o (IF Fails(e, diffIndex) THEN <<Cmd(gitCommand("stash pop"), FALSE, Throw)>> ELSE <<>>)
        \o (IF skipDeps THEN <<>>
            ELSE updateDependencies(serviceName, e, useComposerUpdate))
        \o <<Cmd(gitCommand("log -1 --pretty=format:\"%h - %s (%cr)\""), FALSE, Throw)>>

\* the commands of the try block of updateServiceBranch, in order
updateSteps(serviceName, e, targetBranch, useComposerUpdate, skipDeps) ==
    LET diffIndex == Cmd(DiffIndex, e.dirty, Ignore)
    IN  <<Cmd(RevParseHead, FALSE, Throw), diffIndex>>
        \o (IF Fails(e, diffIndex) THEN <<Cmd(AutoStash, FALSE, Throw)>> ELSE <<>>)
        \o <<Cmd(gitCommand("fetch"), FALSE, Throw),
             verifyRemote(e, targetBranch),
             Cmd(Checkout(targetBranch), FALSE, Throw),
             Cmd(gitCommand("pull"), FALSE, Throw)>>
        \o (IF skipDeps THEN <<>>
            ELSE updateDependencies(serviceName, e, useComposerUpdate))
        \o <<Cmd(gitCommand("log -1 --pretty=format:\"%h - %s (%cr)\""), FALSE, Throw)>>

\* updateServiceBranch without its try/catch: the error leaves the function
updateServiceBranchUncaught(serviceName, repoPath, e, targetBranch, useComposerUpdate, skipDeps, verbose) ==
    LET r == Run(updateSteps(serviceName, e, targetBranch, useComposerUpdate, skipDeps), e)
    IN  IF ~existsSync(repoPath, e) THEN Escaped(<<>>, DirectoryNotFound)
        ELSE IF r.error # NoError THEN Escaped(r.cmds, r.error)
        ELSE Iteration(r.cmds,
                       <<[service |-> serviceName, success |-> TRUE,
                          branch |-> targetBranch, commit |-> "<latest commit>"]>>,
                       {Concat(serviceName, "... ok")})

updateServiceBranch(serviceName, repoPath, e, targetBranch, useComposerUpdate, skipDeps, verbose) ==
    IF ~existsSync(repoPath, e)
    THEN Iteration(<<>>,
                   <<[service |-> serviceName, success |-> FALSE, error |-> DirectoryNotFound]>>,
                   {})
    ELSE LET r == Run(updateSteps(serviceName, e, targetBranch, useComposerUpdate, skipDeps),
                      e)
         IN  IF r.error = NoError
             THEN Iteration(r.cmds,
                            <<[service |-> serviceName, success |-> TRUE,
                               branch |-> targetBranch, commit |-> "<latest commit>"]>>,
                            IF verbose
                            THEN {Concat("Success: ", serviceName)}
                            ELSE {Concat(serviceName, "... ok")})
             ELSE Iteration(r.cmds,
                            <<[service |-> serviceName, success |-> FALSE, error |-> r.error]>>,
                            IF verbose
                            THEN {Concat("Error updating ", Concat(serviceName, Concat(": ", r.error)))}
                            ELSE {Concat(serviceName, "... failed")})


----------------------------------------------------------------------------
\* list

Null == "<null>"

getCurrentBranch(serviceName, repoPath, e) ==
    IF ~existsSync(repoPath, e)
    THEN Iteration(<<>>,
                   <<[service |-> serviceName, branch |-> "N/A", error |-> DirectoryNotFound]>>,
                   {})
    ELSE LET r == Run(<<Cmd(RevParseHead, FALSE, Throw)>>, e)
         IN  IF r.error = NoError
             THEN Iteration(r.cmds,
                            <<[service |-> serviceName, branch |-> e.branch, error |-> Null]>>, {})
             ELSE Iteration(r.cmds,
                            <<[service |-> serviceName, branch |-> "N/A", error |-> r.error]>>, {})


----------------------------------------------------------------------------
\* branches [service]


\* A line of output is a sequence of pieces of text; " " is white space.
RECURSIVE TrimStart(_)
TrimStart(line) ==
    IF line # <<>> /\ Head(line) = " " THEN TrimStart(Tail(line)) ELSE line

RECURSIVE Reverse(_)
Reverse(line) == IF line = <<>> THEN <<>> ELSE Reverse(Tail(line)) \o <<Head(line)>>

\* line.trim()
Trim(line) == Reverse(TrimStart(Reverse(TrimStart(line))))

\* line.replace(/^\*\s*/, '')
StripMarker(line) ==
    IF line # <<>> /\ Head(line) = "*" THEN TrimStart(Tail(line)) ELSE line

\* line.replace(/^remotes\/origin\//, '')
StripRemote(line) ==
    IF line # <<>> /\ Head(line) = "remotes/origin/" THEN Tail(line) ELSE line

RECURSIVE Join(_)
\* the text of a line
Join(line) == IF line = <<>> THEN "" ELSE Concat(Head(line), Join(Tail(line)))

RECURSIVE IndexOf(_, _, _)
\* self.indexOf(x) searched from position k (1-based); 0 when absent
IndexOf(self, x, k) ==
    IF k > Len(self) THEN 0
    ELSE IF self[k] = x THEN k
    ELSE IndexOf(self, x, k + 1)

NonEmpty(line) == line # <<>>

\* the filter without its test for HEAD
KeepFirst(self, index) == IndexOf(self, self[index], 1) = index

\* (branch, index, self) => branch !== 'HEAD' && self.indexOf(branch) === index
KeepBranch(self, index) == self[index] # "HEAD" /\ IndexOf(self, self[index], 1) = index

RECURSIVE FilterBranches(_, _)
FilterBranches(self, index) ==
    IF index > Len(self) THEN <<>>
    ELSE (IF KeepBranch(self, index) THEN <<self[index]>> ELSE <<>>)
         \o FilterBranches(self, index + 1)

\* output.split('\n').map(trim).filter(length > 0).map(strip).filter(...)
ParseBranches(output) ==
    LET trimmed == SelectSeq([k \in 1..Len(output) |-> Trim(output[k])], NonEmpty)
        names == [k \in 1..Len(trimmed) |-> Join(StripRemote(StripMarker(trimmed[k])))]
    IN  FilterBranches(names, 1)

getAllBranches(serviceName, repoPath, e) ==
    IF ~existsSync(repoPath, e)
    THEN Iteration(<<>>,
                   <<[service |-> serviceName, branches |-> <<>>, error |-> DirectoryNotFound]>>,
                   {})
    ELSE LET r == Run(<<Cmd(gitCommand("fetch --all --quiet"), FALSE, Ignore),
                        Cmd(gitCommand("branch -a"), FALSE, Throw)>>, e)
         IN  IF r.error = NoError
             THEN Iteration(r.cmds,
                            <<[service |-> serviceName, branches |-> ParseBranches(e.listing),
                               error |-> Null]>>, {})
             ELSE Iteration(r.cmds,
                            <<[service |-> serviceName, branches |-> <<>>, error |-> r.error]>>,
                            {})

\* what listAvailableBranches prints for one result
BranchLines(result) ==
    {Concat(result.service, ":")}
    \cup (IF result.error # Null THEN {Concat("  Error: ", result.error)}
          ELSE IF Len(result.branches) = 0 THEN {"  No branches found"}
          ELSE {Concat("  - ", result.branches[k]) : k \in 1..Len(result.branches)})


----------------------------------------------------------------------------
\* status [service]

RevList(branch) ==
    gitCommand(Concat("rev-list --left-right --count ",
                      Concat(branch, Concat("...origin/", branch))))

\* line => line.trim() as a filter: the line is not blank
NonBlank(line) == line \notin {"", " "}

\* parseInt(n) || 0 of one field of the rev-list output; a missing field is undefined
ParseIntOrZero(fields, k) ==
    LET n == Arg(fields, k)
    IN  CASE n = "1" -> 1
          [] n = "2" -> 2
          [] OTHER -> 0

\* a repository counted clean whatever it is behind its remote
isCleanLocally(uncommittedFiles, commitsAhead, commitsBehind) ==
    uncommittedFiles = 0 /\ commitsAhead = 0

\* isClean: uncommittedFiles === 0 && commitsAhead === 0 && commitsBehind === 0
isClean(uncommittedFiles, commitsAhead, commitsBehind) ==
    uncommittedFiles = 0 /\ commitsAhead = 0 /\ commitsBehind = 0

getRepositoryStatus(serviceName, repoPath, e) ==
    IF ~existsSync(repoPath, e)
    THEN Iteration(<<>>, <<[service |-> serviceName, error |-> DirectoryNotFound]>>, {})
    ELSE IF Fails(e, Cmd(RevParseHead, FALSE, Throw))
    THEN Iteration(<<RevParseHead>>,
                   <<[service |-> serviceName, error |-> CommandFailed(RevParseHead)]>>, {})
    ELSE LET currentBranch == e.branch
             hasUnstagedChanges == Fails(e, Cmd(DiffIndex, e.dirty, Ignore))
             hasStagedChanges ==
                 ~Fails(e, Cmd(gitCommand("diff --cached --numstat"), FALSE, Ignore))
                 /\ e.staged
             uncommittedFiles ==
                 IF Fails(e, Cmd(gitCommand("status --porcelain"), FALSE, Ignore)) THEN 0
                 ELSE Len(SelectSeq(e.porcelain, NonBlank))
             counts == Run(<<Cmd(gitCommand("fetch --quiet"), FALSE, Throw),
                             Cmd(RevList(currentBranch), ~e.upstream, Throw)>>, e)
             commitsAhead ==
                 IF counts.error = NoError THEN ParseIntOrZero(e.revlist, 0) ELSE 0
             commitsBehind ==
                 IF counts.error = NoError THEN ParseIntOrZero(e.revlist, 1) ELSE 0
         IN  Iteration(<<RevParseHead, DiffIndex, gitCommand("diff --cached --numstat"),
                         gitCommand("status --porcelain")>> \o counts.cmds,
                       <<[service |-> serviceName,
                          branch |-> currentBranch,
                          uncommittedFiles |-> uncommittedFiles,
                          hasUnstagedChanges |-> hasUnstagedChanges,
                          hasStagedChanges |-> hasStagedChanges,
                          commitsAhead |-> commitsAhead,
                          commitsBehind |-> commitsBehind,
                          isClean |-> isClean(uncommittedFiles, commitsAhead,
                                              commitsBehind)]>>,
                       {})


----------------------------------------------------------------------------
\* changes [service]


\* the body of the loop of showUncommittedChanges
changesBody(serviceName, repoPath, e, verbose) ==
    IF ~existsSync(repoPath, e) THEN Iteration(<<>>, <<>>, {})
    ELSE LET r == Run(<<Cmd(gitCommand("status --porcelain"), FALSE, Throw)>>
                      \o (IF verbose /\ e.porcelain # <<>>
                          THEN <<Cmd(gitCommand("diff --stat"), FALSE, Ignore)>> ELSE <<>>), e)
         IN  IF r.error # NoError
             THEN Iteration(r.cmds, <<>>,
                            {Concat(serviceName, Concat(": Error - ", r.error))})
             ELSE IF e.porcelain # <<>>
             THEN Iteration(r.cmds, <<>>, {Concat(serviceName, ": file(s) with changes")})
             ELSE Iteration(r.cmds, <<>>, {})


----------------------------------------------------------------------------
\* sync [service]

UncommittedChanges == "Has uncommitted changes"

\* the loop body with the failure of diff-index swallowed
syncBodyPulling(serviceName, repoPath, e, verbose) ==
    LET r == Run(<<Cmd(RevParseHead, FALSE, Throw),
                   Cmd(DiffIndex, e.dirty, Ignore),
                   Cmd(gitCommand("fetch"), FALSE, Throw),
                   Cmd(gitCommand("pull"), FALSE, Throw)>>, e)
    IN  IF r.error = NoError
        THEN Iteration(r.cmds,
                       <<[service |-> serviceName, success |-> TRUE, branch |-> e.branch]>>, {})
        ELSE Iteration(r.cmds,
                       <<[service |-> serviceName, success |-> FALSE, error |-> r.error]>>, {})

\* the body of the loop of syncRepositories
syncBody(serviceName, repoPath, e, verbose) ==
    IF ~existsSync(repoPath, e)
    THEN Iteration(<<>>,
                   <<[service |-> serviceName, success |-> FALSE, error |-> DirectoryNotFound]>>,
                   IF verbose THEN {} ELSE {Concat(serviceName, "... failed")})
    ELSE LET r == Run(<<Cmd(RevParseHead, FALSE, Throw),
                        Cmd(DiffIndex, e.dirty, UncommittedChanges),
                        Cmd(gitCommand("fetch"), FALSE, Throw),
                        Cmd(gitCommand("pull"), FALSE, Throw)>>, e)
         IN  IF r.error = NoError
             THEN Iteration(r.cmds,
                            <<[service |-> serviceName, success |-> TRUE, branch |-> e.branch]>>,
                            IF verbose THEN {Concat("Success: ", serviceName)}
                            ELSE {Concat(serviceName, "... ok")})
             ELSE Iteration(r.cmds,
                            <<[service |-> serviceName, success |-> FALSE, error |-> r.error]>>,
                            IF verbose THEN {Concat("Error: ", r.error)}
                            ELSE {Concat(serviceName, "... failed")})


----------------------------------------------------------------------------
\* search <pattern> [service], recent [service]

Ripgrep(searchPattern) ==
    Concat("rg \"", Concat(searchPattern, "\" --count --color never"))

\* the body of the loop of searchInRepositories; zero matches make rg exit 1
searchBody(serviceName, repoPath, e, searchPattern) ==
    IF ~existsSync(repoPath, e) THEN Iteration(<<>>, <<>>, {})
    ELSE LET r == Run(<<Cmd(Ripgrep(searchPattern), FALSE, Throw)>>, e)
         IN  IF r.error = NoError
             THEN Iteration(r.cmds, <<>>, {Concat(serviceName, ": matches")})
             ELSE Iteration(r.cmds, <<>>, {})



\* the body of the loop of showRecentActivity: `git git log` is no git command
recentBody(serviceName, repoPath, e) ==
    IF ~existsSync(repoPath, e) THEN Iteration(<<>>, <<>>, {})
    ELSE LET logCommand == "git log --since=\"<date>\" --pretty=format:\"%h|%an|%cr|%s\" -n 5"
             r == Run(<<Cmd(gitCommand(logCommand), TRUE, Throw)>>, e)
         IN  Iteration(r.cmds, <<>>, {})


----------------------------------------------------------------------------
\* stash [save|pop|list] [message]

StashPush(stashMessage) ==
    gitCommand(Concat("stash push -m \"", Concat(stashMessage, "\"")))

DefaultStashMessage == "repo-manager stash <ISO time>"

StashLine(serviceName, status) == Concat(serviceName, Concat(": ", status))

\* the body of the loop of manageStash
stashBody(serviceName, repoPath, e, action, message) ==
    IF ~existsSync(repoPath, e) THEN Iteration(<<>>, <<>>, {})
    ELSE IF action = "save"
    THEN LET stashMessage == IF Truthy(message) THEN message ELSE DefaultStashMessage
             diffIndex == Cmd(DiffIndex, e.dirty, Ignore)
             r == Run(<<diffIndex>>
                      \o (IF Fails(e, diffIndex)
                          THEN <<Cmd(StashPush(stashMessage), FALSE, Throw)>> ELSE <<>>), e)
         IN  IF r.error # NoError
             THEN Iteration(r.cmds,
                            <<[service |-> serviceName, action |-> action, status |-> "error",
                               error |-> r.error]>>,
                            {Concat(serviceName, Concat(": error - ", r.error))})
             ELSE IF Fails(e, diffIndex)
             THEN Iteration(r.cmds,
                            <<[service |-> serviceName, action |-> action, status |-> "saved",
                               message |-> stashMessage]>>,
                            {StashLine(serviceName, "saved")})
             ELSE Iteration(r.cmds,
                            <<[service |-> serviceName, action |-> action,
                               status |-> "no changes"]>>,
                            {StashLine(serviceName, "no changes")})
    ELSE IF action = "pop"
    THEN LET pop == Cmd(gitCommand("stash pop"), ~e.stash, Throw)
         IN  IF ~Fails(e, pop)
             THEN Iteration(<<gitCommand("stash pop")>>,
                            <<[service |-> serviceName, action |-> action, status |-> "popped"]>>,
                            {StashLine(serviceName, "popped")})
             ELSE IF ~e.stash    \* error.message.includes('No stash entries')
             THEN Iteration(<<gitCommand("stash pop")>>,
                            <<[service |-> serviceName, action |-> action,
                               status |-> "no stash"]>>,
                            {StashLine(serviceName, "no stash")})
             ELSE Iteration(<<gitCommand("stash pop")>>,
                            <<[service |-> serviceName, action |-> action, status |-> "error",
                               error |-> CommandFailed(gitCommand("stash pop"))]>>,
                            {StashLine(serviceName, "error")})
    ELSE LET list == Cmd(gitCommand("stash list"), FALSE, Throw)
             count == IF ~Fails(e, list) /\ e.stash THEN 1 ELSE 0
         IN  Iteration(<<gitCommand("stash list")>>,
                       <<[service |-> serviceName, action |-> action, status |-> "list",
                          count |-> count]>>,
                       IF count > 0 THEN {Concat(serviceName, ": stashes")} ELSE {})


----------------------------------------------------------------------------
\* drop [service] [--force]

ResetHard == gitCommand("reset --hard HEAD")
CleanFd == gitCommand("clean -fd")

\* confirm.toLowerCase() of the answers tried
ToLowerCase(text) ==
    CASE text = "YES" -> "yes"
      [] text = "Yes" -> "yes"
      [] text = "N" -> "n"
      [] OTHER -> text

Answers == {"yes", "YES", "Yes", "y", "N", "no", "", " yes"}

\* changes seen in the tracked files only
trackedChangesOf(diffIndexFailed, untrackedListed) == diffIndexFailed

\* hasChanges after the two checks: diff-index exited non-zero, or ls-files
\* --others printed something
hasChangesOf(diffIndexFailed, untrackedListed) == diffIndexFailed \/ untrackedListed

\* the body of the loop of dropUncommittedChanges
dropBody(serviceName, repoPath, e, verbose) ==
    IF ~existsSync(repoPath, e)
    THEN Iteration(<<>>,
                   <<[service |-> serviceName, success |-> FALSE, error |-> DirectoryNotFound]>>,
                   IF verbose THEN {} ELSE {Concat(serviceName, "... failed")})
    ELSE LET diffIndex == Cmd(DiffIndex, e.dirty, Ignore)
             lsFiles == Cmd(gitCommand("ls-files --others --exclude-standard"), FALSE, Throw)
             hasChanges == hasChangesOf(Fails(e, diffIndex), ~Fails(e, lsFiles) /\ e.untracked)
             r == Run(<<diffIndex, lsFiles>>
                      \o (IF hasChanges
                          THEN <<Cmd(ResetHard, FALSE, Throw), Cmd(CleanFd, FALSE, Throw),
                                 Cmd(RevParseHead, FALSE, Throw)>>
                          ELSE <<>>), e)
         IN  IF r.error # NoError
             THEN Iteration(r.cmds,
                            <<[service |-> serviceName, success |-> FALSE, error |-> r.error]>>,
                            IF verbose THEN {Concat("Error: ", r.error)}
                            ELSE {Concat(serviceName, "... failed")})
             ELSE IF ~hasChanges
             THEN Iteration(r.cmds,
                            <<[service |-> serviceName, success |-> TRUE,
                               status |-> "no changes"]>>,
                            IF verbose THEN {"No changes to drop"}
                            ELSE {Concat(serviceName, "... ok (no changes)")})
             ELSE Iteration(r.cmds,
                            <<[service |-> serviceName, success |-> TRUE,
                               status |-> "changes dropped", branch |-> e.branch]>>,
                            IF verbose THEN {Concat("Success: All changes dropped in ", serviceName)}
                            ELSE {Concat(serviceName, "... ok")})


----------------------------------------------------------------------------
\* pr [service] --title=...

RevParseUpstream(branch) ==
    gitCommand(Concat("rev-parse --abbrev-ref ", Concat(branch, "@{upstream}")))
PushUpstream(branch) == gitCommand(Concat("push -u origin ", branch))

GhPrCreate(title, body, draft, currentBranch, defaultBranch) ==
    Concat("gh pr create --title \"",
     Concat(title,
      Concat("\" --body \"",
       Concat(IF Truthy(body) THEN body
              ELSE Concat("Auto-generated PR for ", currentBranch),
        Concat("\"",
         Concat(IF draft THEN " --draft" ELSE "",
          Concat(" --base ", defaultBranch)))))))

DefaultBranchCannotPR == "Cannot create PR from master/main branch"

\* the loop body that never pushes the branch
prBodyWithoutPush(serviceName, repoPath, e, title, body, draft) ==
    IF ~existsSync(repoPath, e) THEN Iteration(<<>>, <<>>, {})
    ELSE IF e.branch \in {"master", "main"}
    THEN Iteration(<<RevParseHead>>,
                   <<[service |-> serviceName, success |-> FALSE,
                      error |-> DefaultBranchCannotPR]>>, {})
    ELSE LET r == Run(<<Cmd(RevParseHead, FALSE, Throw),
                        Cmd(RevParseUpstream(e.branch), ~e.upstream, Ignore),
                        Cmd(gitCommand("symbolic-ref refs/remotes/origin/HEAD | sed \"s@^refs/remotes/origin/@@\""), FALSE, Throw),
                        Cmd(GhPrCreate(title, body, draft, e.branch, "main"), FALSE, Throw)>>,
                      e)
         IN  IF r.error = NoError
             THEN Iteration(r.cmds,
                            <<[service |-> serviceName, success |-> TRUE, branch |-> e.branch,
                               prUrl |-> "<pr url>"]>>, {})
             ELSE Iteration(r.cmds,
                            <<[service |-> serviceName, success |-> FALSE, error |-> r.error]>>, {})

\* the body of the loop of createPullRequest
prBody(serviceName, repoPath, e, title, body, draft) ==
    IF ~existsSync(repoPath, e) THEN Iteration(<<>>, <<>>, {})
    ELSE IF Fails(e, Cmd(RevParseHead, FALSE, Throw))
    THEN Iteration(<<RevParseHead>>,
                   <<[service |-> serviceName, success |-> FALSE,
                      error |-> CommandFailed(RevParseHead)]>>,
                   {Concat(serviceName, Concat(": failed ", CommandFailed(RevParseHead)))})
    ELSE IF e.branch \in {"master", "main"}
    THEN Iteration(<<RevParseHead>>,
                   <<[service |-> serviceName, success |-> FALSE,
                      error |-> DefaultBranchCannotPR]>>,
                   {Concat(serviceName, Concat(": failed Cannot create PR from ", e.branch))})
    ELSE LET upstream == Cmd(RevParseUpstream(e.branch), ~e.upstream, Ignore)
             r == Run(<<upstream>>
                      \o (IF Fails(e, upstream)
                          THEN <<Cmd(PushUpstream(e.branch), FALSE, Throw)>> ELSE <<>>)
                      \o <<Cmd(gitCommand("symbolic-ref refs/remotes/origin/HEAD | sed \"s@^refs/remotes/origin/@@\""), FALSE, Throw),
                           Cmd(GhPrCreate(title, body, draft, e.branch, "main"), FALSE, Throw)>>,
                      e)
         IN  IF r.error = NoError
             THEN Iteration(<<RevParseHead>> \o r.cmds,
                            <<[service |-> serviceName, success |-> TRUE, branch |-> e.branch,
                               prUrl |-> "<pr url>"]>>,
                            {Concat(serviceName, ": PR created")})
             ELSE Iteration(<<RevParseHead>> \o r.cmds,
                            <<[service |-> serviceName, success |-> FALSE, error |-> r.error]>>,
                            {Concat(serviceName, Concat(": failed ", r.error))})


----------------------------------------------------------------------------
\* create <ticket> [service]

CheckoutNew(branchName) == gitCommand(Concat("checkout -b ", branchName))

\* the loop body that rethrows the failure of checkout -b whatever its message
createBodyRethrowing(serviceName, repoPath, e, branchName) ==
    IF ~existsSync(repoPath, e)
    THEN Iteration(<<>>,
                   <<[service |-> serviceName, success |-> FALSE, error |-> DirectoryNotFound]>>,
                   {})
    ELSE LET r == Run(<<Cmd(RevParseHead, FALSE, Throw),
                        Cmd(gitCommand("fetch"), FALSE, Throw),
                        Cmd(Checkout("dev"), FALSE, Throw),
                        Cmd(gitCommand("pull"), FALSE, Throw),
                        Cmd(CheckoutNew(branchName), e.taken, Throw)>>, e)
         IN  IF r.error # NoError
             THEN Iteration(r.cmds,
                            <<[service |-> serviceName, success |-> FALSE, error |-> r.error]>>,
                            {})
             ELSE Iteration(r.cmds,
                            <<[service |-> serviceName, success |-> TRUE,
                               branch |-> branchName]>>, {})

\* the body of the loop of createBranch
createBody(serviceName, repoPath, e, branchName) ==
    IF ~existsSync(repoPath, e)
    THEN Iteration(<<>>,
                   <<[service |-> serviceName, success |-> FALSE, error |-> DirectoryNotFound]>>,
                   {})
    ELSE LET \* git refuses with "already exists" when the branch is there;
             \* error.message.includes('already exists') then checks it out
             create == Cmd(CheckoutNew(branchName), e.taken,
                           IF e.taken THEN Ignore ELSE Throw)
             r == Run(<<Cmd(RevParseHead, FALSE, Throw),
                        Cmd(gitCommand("fetch"), FALSE, Throw),
                        Cmd(Checkout("dev"), FALSE, Throw),
                        Cmd(gitCommand("pull"), FALSE, Throw),
                        create>>
                      \o (IF Fails(e, create) /\ e.taken
                          THEN <<Cmd(Checkout(branchName), FALSE, Throw)>> ELSE <<>>), e)
         IN  IF r.error # NoError
             THEN Iteration(r.cmds,
                            <<[service |-> serviceName, success |-> FALSE, error |-> r.error]>>,
                            {})
             ELSE IF Fails(e, create)
             THEN Iteration(r.cmds,
                            <<[service |-> serviceName, success |-> TRUE, branch |-> branchName,
                               existing |-> TRUE]>>, {})
             ELSE Iteration(r.cmds,
                            <<[service |-> serviceName, success |-> TRUE,
                               branch |-> branchName]>>, {})


----------------------------------------------------------------------------
\* prs

\* `gh pr list ...` as listAllPullRequests runs it: under sudo when root
prListCommand(state, root) ==
    Concat(IF root THEN "sudo -u www-data " ELSE "",
           Concat("gh pr list --state ",
                  Concat(state, " --json number,title,state,url,isDraft,createdAt,author,headRefName --limit 50")))

\* text.toUpperCase(), a text being a sequence of characters
toUpperCase(text) ==
    LET lower == <<"r", "e", "n", "f", "i", "x", "d", "v">>
        upper == <<"R", "E", "N", "F", "I", "X", "D", "V">>
    IN  [k \in 1..Len(text) |->
            IF IndexOf(lower, text[k], 1) > 0 THEN upper[IndexOf(lower, text[k], 1)]
            ELSE text[k]]

\* text.match(/REN-(\d+)/i)[0]: the leftmost REN- followed by digits, in any
\* case, with all the digits that follow; <<>> when match returns null
Match(text) ==
    LET digit == {"0", "1", "2", "3", "4", "5", "6", "7", "8", "9"}
        at == {i \in 1..Len(text) :
                 /\ i + 4 <= Len(text)
                 /\ toUpperCase(SubSeq(text, i, i + 3)) = <<"R", "E", "N", "-">>
                 /\ text[i + 4] \in digit}
    IN  IF at = {} THEN <<>>
        ELSE LET i == CHOOSE a \in at : \A b \in at : a <= b
                 end == CHOOSE j \in (i + 4)..Len(text) :
                          /\ \A k \in (i + 4)..j : text[k] \in digit
                          /\ (j = Len(text) \/ text[j + 1] \notin digit)
             IN  SubSeq(text, i, end)

\* the match looked for in the title only
titleMatch(pr) == Match(pr.title)

\* pr.title.match(/REN-(\d+)/i) || pr.headRefName.match(/REN-(\d+)/i)
ticketMatch(pr) == IF Match(pr.title) # <<>> THEN Match(pr.title) ELSE Match(pr.headRefName)

RECURSIVE Grouped(_, _)
\* prsByTicket after the pull requests prs of one service: each one with a
\* ticket is pushed on the group of its ticket, created when it does not exist
Grouped(byTicket, prs) ==
    IF prs = <<>> THEN byTicket
    ELSE LET prInfo == Head(prs)
             ticket == toUpperCase(ticketMatch(prInfo))
             at == {k \in 1..Len(byTicket) : byTicket[k].ticket = ticket}
         IN  Grouped(IF ticketMatch(prInfo) = <<>> THEN byTicket
                     ELSE IF at = {}
                     THEN Append(byTicket, [ticket |-> ticket, prs |-> <<prInfo>>])
                     ELSE [k \in 1..Len(byTicket) |->
                             IF k \in at
                             THEN [byTicket[k] EXCEPT !.prs = Append(@, prInfo)]
                             ELSE byTicket[k]],
                     Tail(prs))

\* the body of the loop of listAllPullRequests; its catch is empty
prsBody(serviceName, repoPath, e, state, root) ==
    IF ~existsSync(repoPath, e) THEN Iteration(<<>>, <<>>, {})
    ELSE LET r == Run(<<Cmd(prListCommand(state, root), FALSE, Throw)>>, e)
         IN  IF r.error = NoError
             THEN Iteration(r.cmds,
                            [k \in 1..Len(e.prs) |->
                                [service |-> serviceName, number |-> e.prs[k].number,
                                 title |-> e.prs[k].title,
                                 headRefName |-> e.prs[k].headRefName,
                                 createdAt |-> e.prs[k].createdAt]],
                            {})
             ELSE Iteration(r.cmds, <<>>, {})

RECURSIVE SortByDate(_)
\* allPRs.sort((a, b) => new Date(b.createdAt) - new Date(a.createdAt)): latest
\* first, equal dates in their order
SortByDate(prs) ==
    IF prs = <<>> THEN <<>>
    ELSE LET rest == SortByDate(Tail(prs))
         IN  SelectSeq(rest, LAMBDA pr : pr.createdAt > Head(prs).createdAt)
             \o <<Head(prs)>>
             \o SelectSeq(rest, LAMBDA pr : pr.createdAt <= Head(prs).createdAt)

\* allPRs.filter(pr => !(pr.title.match(/REN-\d+/i) || pr.headRefName.match(/REN-\d+/i)))
prsWithoutTickets(allPRs) ==
    SelectSeq(allPRs, LAMBDA pr : Match(pr.title) = <<>> /\ Match(pr.headRefName) = <<>>)

----------------------------------------------------------------------------
\* Repository root

DEFAULT_REPO_ROOT == "/var/amarki/repository"

\* A configuration of the repository root.
\*   flag    the text after --repo-root= ; Undefined without the flag
\*   r       the argument after -r ; Undefined without -r or without an argument
\*   REN360_REPO_ROOT, REPO_ROOT   the environment variables
\*   local, home   .ren360rc in the current and in the home directory: whether
\*           it exists, whether it parses, and its repoRoot
\*   dotenv  .env beside the script: whether it exists, and its lines as
\*           sequences of pieces of text
Unconfigured ==
    [flag |-> Undefined, r |-> Undefined, REN360_REPO_ROOT |-> Undefined,
     REPO_ROOT |-> Undefined,
     local |-> [exists |-> FALSE, parses |-> FALSE, repoRoot |-> Undefined],
     home |-> [exists |-> FALSE, parses |-> FALSE, repoRoot |-> Undefined],
     dotenv |-> [exists |-> FALSE, lines |-> <<>>]]

\* loadEnvVar('REPO_ROOT'): the trimmed text after the first REPO_ROOT= that
\* has text after it, wherever in a line of .env it stands; else process.env
loadEnvVar(c) ==
    LET at == {k \in 1..Len(c.dotenv.lines) :
                 \E j \in 1..(Len(c.dotenv.lines[k]) - 1) : c.dotenv.lines[k][j] = "REPO_ROOT="}
    IN  IF c.dotenv.exists /\ at # {}
        THEN LET line == c.dotenv.lines[CHOOSE k \in at : \A h \in at : k <= h]
             IN  Join(Trim(SubSeq(line, IndexOf(line, "REPO_ROOT=", 1) + 1, Len(line))))
        ELSE c.REPO_ROOT

\* getRepoRoot()
getRepoRoot(c) ==
    IF Truthy(c.REN360_REPO_ROOT) THEN c.REN360_REPO_ROOT
    ELSE IF c.local.exists /\ c.local.parses /\ Truthy(c.local.repoRoot) THEN c.local.repoRoot
    ELSE IF c.home.exists /\ c.home.parses /\ Truthy(c.home.repoRoot) THEN c.home.repoRoot
    ELSE IF Truthy(loadEnvVar(c)) THEN loadEnvVar(c)
    ELSE DEFAULT_REPO_ROOT

\* main(): REPO_ROOT from --repo-root=, else from -r and its argument, else
\* from getRepoRoot()
repoRoot(c) ==
    IF c.flag # Undefined THEN c.flag
    ELSE IF c.r # Undefined /\ Truthy(c.r) THEN c.r
    ELSE getRepoRoot(c)

\* main's console line about a repository root other than the default one
usingRoot ==
    IF repoRoot(config) # DEFAULT_REPO_ROOT
    THEN {Concat("Using repository root: ", repoRoot(config))}
    ELSE {}

----------------------------------------------------------------------------
\* The run

\* Command lines the run is started with (without the verbose flag).
CommandLines ==
    LET Opt(X) == {<<>>} \cup {<<x>> : x \in X}
        S == Opt({ServiceNames[k] : k \in 1..Len(ServiceNames)}
                 \cup {"", "bogus", "constructor"})
    IN
    {<<"list">>, <<"help">>, <<"frobnicate">>, <<"update">>, <<"create">>, <<"search">>}
    \cup {<<c>> \o s : c \in {"branches", "status", "changes", "sync", "recent"}, s \in S}
    \cup {<<"update", "dev">> \o s \o f :
            s \in S, f \in {<<>>, <<"--skip-deps">>, <<"--composer-update">>}}
    \cup {<<"create", "1234">> \o s : s \in S}
    \cup {<<"search", "TODO">> \o s : s \in S}
    \cup {<<"stash">> \o a : a \in Opt({"save", "pop", "list", "drop", ""})}
    \cup {<<"stash", "save", "wip">>}
    \cup {<<"drop">> \o s \o f : s \in S, f \in {<<>>, <<"--force">>}}
    \cup {<<"pr">> \o s \o t : s \in S, t \in {<<>>, <<"--title=">>, <<"--title=Fix">>}}
    \cup {<<"prs">>, <<"prs", "--state=all">>}
    \cup {<<"review">>, <<"review", "12">>, <<"review", "12", "--analyze">>,
          <<"review", "99", "--analyze">>}

Invocations == {c \o v : c \in CommandLines, v \in {<<>>, <<"--verbose">>}}

\* arg.startsWith('--') over the arguments of Invocations
StartsWithDashes(a) ==
    a \in {"--skip-deps", "--composer-update", "--force", "--verbose",
           "--title=", "--title=Fix", "--state=all", "--analyze"}

\* args after main has spliced the verbose flags out
args == Without(Without(argv, "--verbose"), "-v")

command == Arg(args, 0)

\* args[k] && !args[k].startsWith('--') ? args[k] : undefined
Positional(k) ==
    IF Truthy(Arg(args, k)) /\ ~StartsWithDashes(Arg(args, k)) THEN Arg(args, k) ELSE Undefined

NoIteration ==
    [service |-> Undefined, path |-> Undefined, env |-> Normal, cmds |-> <<>>, recs |-> <<>>]

Init ==
    /\ argv \in Invocations
    /\ isRoot \in BOOLEAN
    /\ (Arg(argv, 0) \notin {"update", "create", "prs"} => isRoot = FALSE)
    /\ VERBOSE = FALSE
    /\ pc = "main"
    /\ exitCode = -1
    /\ sel = <<>>
    /\ invoked = <<>>
    /\ results = <<>>
    /\ last = NoIteration
    /\ shown = {}
    /\ prompts = 0
    /\ confirm = Undefined
    /\ outcome = "running"
    /\ files = {}
    /\ prsByTicket = <<>>
    /\ config = Unconfigured
    /\ REPO_ROOT = DEFAULT_REPO_ROOT
    /\ abnormal = 0
    /\ ai = [module |-> FALSE, apiKey |-> Undefined, call |-> "answers", tmp |-> "writable"]

\* process.exit(code), or main returning (code 0)
Exit(code, how) == pc' = "exit" /\ exitCode' = code /\ outcome' = how

UsageError(line) ==
    /\ shown' = shown \cup usingRoot \cup log(line, TRUE, VERBOSE')
    /\ Exit(1, "usage")

KnownCommands ==
    {"list", "branches", "update", "create", "status", "changes", "sync", "search",
     "recent", "stash", "drop", "pr", "prs", "review", "help"}

\* args.find(arg => arg.startsWith('--state='))?.split('=')[1] || 'open'
prState == IF Includes(args, "--state=all") THEN "all" ELSE "open"

\* args[1] || 'list'
stashAction == IF Truthy(Arg(args, 1)) THEN Arg(args, 1) ELSE "list"

\* args.find(arg => arg.startsWith('--title='))
prTitle ==
    IF Includes(args, "--title=Fix") THEN "--title=Fix"
    ELSE IF Includes(args, "--title=") THEN "--title="
    ELSE Undefined

\* prTitle.split('=').slice(1).join('=')
TitleOf(flag) == IF flag = "--title=Fix" THEN "Fix" ELSE ""

\* stashAction === 'save' && args[2] ? args.slice(2).join(' ') : ''
stashMessage ==
    IF stashAction = "save" /\ Truthy(Arg(args, 2)) THEN Arg(args, 2) ELSE ""

\* The environments the repository `name` is tried in by the command of the run:
\* the normal one, a missing directory, each state of the repository the
\* command looks at, and each of its commands failing.
Envs(name) ==
    CASE command = "update" ->
           {Normal, Missing,
            [Normal EXCEPT !.dirty = TRUE],
            [Normal EXCEPT !.remote = FALSE],
            [Normal EXCEPT !.dirty = TRUE, !.remote = FALSE],
            [Normal EXCEPT !.composer = FALSE],
            [Normal EXCEPT !.dirty = TRUE, !.fault = AutoStash]}
           \cup {[Normal EXCEPT !.fault = f] :
                   f \in {RevParseHead, DiffIndex, gitCommand("fetch"),
                          Checkout(Arg(args, 1)), gitCommand("pull"),
                          ComposerLine(name, Includes(args, "--composer-update")),
                          gitCommand("log -1 --pretty=format:\"%h - %s (%cr)\"")}}
      [] command = "list" ->
           {Normal, Missing, [Normal EXCEPT !.branch = "main"],
            [Normal EXCEPT !.fault = RevParseHead]}
      [] command = "branches" ->
           {Normal, Missing, [Normal EXCEPT !.listing = <<>>],
            [Normal EXCEPT !.fault = gitCommand("fetch --all --quiet")],
            [Normal EXCEPT !.fault = gitCommand("branch -a")]}
      [] command = "status" ->
           {Normal, Missing,
            [Normal EXCEPT !.dirty = TRUE, !.porcelain = <<" M a.js">>],
            [Normal EXCEPT !.untracked = TRUE, !.porcelain = <<"?? new.txt">>],
            [Normal EXCEPT !.dirty = TRUE, !.staged = TRUE, !.porcelain = <<"M  a.js", " M b.js">>],
            [Normal EXCEPT !.revlist = <<"1", "0">>],
            [Normal EXCEPT !.revlist = <<"0", "2">>],
            [Normal EXCEPT !.revlist = <<"1", "2">>],
            [Normal EXCEPT !.revlist = <<"fatal">>],
            [Normal EXCEPT !.upstream = FALSE, !.revlist = <<>>],
            [Normal EXCEPT !.fault = RevParseHead],
            [Normal EXCEPT !.dirty = TRUE, !.porcelain = <<" M a.js">>,
                           !.fault = gitCommand("status --porcelain")],
            [Normal EXCEPT !.revlist = <<"0", "2">>, !.fault = gitCommand("fetch --quiet")]}
      [] command = "changes" ->
           {Normal, Missing, [Normal EXCEPT !.dirty = TRUE, !.porcelain = <<" M a.js">>],
            [Normal EXCEPT !.fault = gitCommand("status --porcelain")]}
      [] command = "sync" ->
           {Normal, Missing, [Normal EXCEPT !.dirty = TRUE],
            [Normal EXCEPT !.dirty = TRUE, !.branch = "dev"],
            [Normal EXCEPT !.untracked = TRUE, !.porcelain = <<"?? new.txt">>]}
           \cup {[Normal EXCEPT !.fault = f] :
                   f \in {RevParseHead, DiffIndex, gitCommand("fetch"), gitCommand("pull")}}
      [] command = "search" ->
           {Normal, Missing, [Normal EXCEPT !.fault = Ripgrep(Arg(args, 1))]}
      [] command = "recent" ->
           {Normal, Missing}
      [] command = "prs" ->
           {Normal, Missing, [Normal EXCEPT !.prs = <<>>],
            [Normal EXCEPT !.fault = prListCommand(prState, isRoot)]}
      [] command = "review" ->
           LET sudo == IF isRoot THEN "sudo -u www-data " ELSE ""
           IN  {Normal, Missing, [Normal EXCEPT !.prs = <<>>],
                [Normal EXCEPT !.prs = <<[@[1] EXCEPT !.state = "MERGED"]>>],
                [Normal EXCEPT !.fault =
                   Concat(sudo, Concat("gh pr list --search \"REN-",
                     Concat(Arg(args, 1), "\" --state all --json number,title,state,url,isDraft,createdAt,author,headRefName")))],
                [Normal EXCEPT !.fault =
                   Concat(sudo, "gh pr view 9 --json files,additions,deletions,body,reviews,comments")]}
      [] command = "stash" ->
           {Normal, Missing, [Normal EXCEPT !.stash = FALSE]}
           \cup (IF stashAction = "save"
                 THEN {[Normal EXCEPT !.dirty = TRUE],
                       [Normal EXCEPT !.untracked = TRUE, !.porcelain = <<"?? new.txt">>],
                       [Normal EXCEPT !.dirty = TRUE,
                                      !.fault = StashPush(IF Truthy(stashMessage) THEN stashMessage
                                                          ELSE DefaultStashMessage)]}
                 ELSE IF stashAction = "pop"
                 THEN {[Normal EXCEPT !.fault = gitCommand("stash pop")]}
                 ELSE {[Normal EXCEPT !.fault = gitCommand("stash list")]})
      [] command = "drop" ->
           {Normal, Missing,
            [Normal EXCEPT !.dirty = TRUE, !.porcelain = <<" M a.js">>],
            [Normal EXCEPT !.untracked = TRUE, !.porcelain = <<"?? new.txt">>],
            [Normal EXCEPT !.dirty = TRUE, !.untracked = TRUE,
                           !.porcelain = <<" M a.js", "?? new.txt">>],
            [Normal EXCEPT !.fault = DiffIndex],
            [Normal EXCEPT !.fault = gitCommand("ls-files --others --exclude-standard")],
            [Normal EXCEPT !.dirty = TRUE, !.porcelain = <<" M a.js">>, !.fault = ResetHard],
            [Normal EXCEPT !.untracked = TRUE, !.porcelain = <<"?? new.txt">>, !.fault = CleanFd],
            [Normal EXCEPT !.dirty = TRUE, !.porcelain = <<" M a.js">>, !.fault = RevParseHead]}
      [] command = "pr" ->
           {Normal, Missing, [Normal EXCEPT !.branch = "main"], [Normal EXCEPT !.branch = "master"],
            [Normal EXCEPT !.upstream = FALSE],
            [Normal EXCEPT !.upstream = FALSE, !.fault = PushUpstream("REN-1")]}
           \cup {[Normal EXCEPT !.fault = f] :
                   f \in {RevParseHead, RevParseUpstream("REN-1"),
                          gitCommand("symbolic-ref refs/remotes/origin/HEAD | sed \"s@^refs/remotes/origin/@@\""),
                          GhPrCreate(TitleOf(prTitle), Undefined, FALSE, "REN-1", "main")}}
      [] command = "create" ->
           {Normal, Missing, [Normal EXCEPT !.taken = TRUE],
            [Normal EXCEPT !.taken = TRUE, !.fault = Checkout(Concat("REN-", Arg(args, 1)))]}
           \cup {[Normal EXCEPT !.fault = f] :
                   f \in {RevParseHead, gitCommand("fetch"), Checkout("dev"), gitCommand("pull"),
                          CheckoutNew(Concat("REN-", Arg(args, 1)))}}
      [] OTHER -> {Normal}

\* main(): flags, then the switch on the command up to the call of its function
Main ==
    /\ pc = "main"
    /\ VERBOSE' = (Includes(argv, "--verbose") \/ Includes(argv, "-v"))
    /\ CASE command = "update" /\ Len(args) < 2 ->
              UsageError("Error: Please specify a branch name")
         [] command = "create" /\ Len(args) < 2 ->
              UsageError("Error: Please specify a ticket number")
         [] command = "search" /\ Len(args) < 2 ->
              UsageError("Error: Please specify a search pattern")
         [] command = "stash" /\ stashAction \notin {"save", "pop", "list"} ->
              UsageError("Error: Invalid stash action")
         [] command = "pr" /\ ~Truthy(prTitle) ->
              UsageError("Error: PR title is required")
         [] command = "review" /\ Len(args) < 2 ->
              UsageError("Error: Please specify a ticket number")
         [] command = "help" ->
              shown' = shown \cup usingRoot \cup {"Usage:"} /\ Exit(0, "help")
         [] command \notin KnownCommands ->
              /\ shown' = shown \cup usingRoot
                           \cup log(Concat("Unknown command: ", command), FALSE, VERBOSE')
              /\ Exit(1, "unknown command")
         [] OTHER ->
              pc' = "call" /\ shown' = shown \cup usingRoot /\ UNCHANGED <<exitCode, outcome>>
    /\ REPO_ROOT' = repoRoot(config)
    /\ UNCHANGED <<argv, ai, config, files, prsByTicket, isRoot, sel, invoked, results, last, prompts,
                   confirm, abnormal>>

\* One iteration of a command's loop over sel, on service s in environment e,
\* r being what the loop body did; push: the command keeps a `results` array.
\* An exception that leaves the loop body
\* leaves the command function and main: main().catch exits with status 1.
Iterate(s, e, r, push) ==
    /\ invoked' = Append(invoked, s.name)
    /\ last' = [service |-> s.name, path |-> s.path, env |-> e,
                cmds |-> r.cmds, recs |-> r.recs]
    /\ abnormal' = abnormal + (IF e = Normal THEN 0 ELSE 1)
    /\ IF r.threw
       THEN /\ results' = results
            /\ shown' = shown \cup log("Fatal error", FALSE, VERBOSE)
            /\ Exit(1, "fatal")
       ELSE /\ results' = (IF push THEN results \o r.recs ELSE results)
            /\ shown' = shown \cup r.out
            /\ UNCHANGED <<pc, exitCode, outcome>>
    /\ UNCHANGED <<argv, ai, config, REPO_ROOT, files, prsByTicket, isRoot, VERBOSE, sel, prompts, confirm>>

\* The environment of the next repository: within the budget of abnormal ones.
Allowed(e) == e = Normal \/ abnormal < MaxAbnormal

InLoop(c) == pc = "loop" /\ command = c /\ Len(invoked) < Len(sel)

AfterLoop(c) == pc = "loop" /\ command = c /\ Len(invoked) = Len(sel)

current == sel[Len(invoked) + 1]

\* The service check at the head of a command function, after its header line:
\* an unknown name prints the error through log() and returns.
Enter(serviceName, header, forceShow) ==
    /\ IF NotFound(serviceName)
       THEN /\ shown' = shown \cup header
                          \cup log(NotFoundLine(serviceName), forceShow, VERBOSE)
            /\ Exit(0, "service not found")
            /\ UNCHANGED sel
       ELSE /\ shown' = shown \cup header
            /\ sel' = ServicesTo(serviceName)
            /\ pc' = "loop"
            /\ UNCHANGED <<exitCode, outcome>>
    /\ UNCHANGED <<argv, ai, config, REPO_ROOT, files, prsByTicket, isRoot, VERBOSE, invoked, results, last, prompts, confirm, abnormal>>

\* The code after the loop: print lines, return to main, exit status 0.
Finish(lines) ==
    /\ shown' = shown \cup lines
    /\ Exit(0, "completed")
    /\ UNCHANGED <<argv, ai, config, REPO_ROOT, files, prsByTicket, isRoot, VERBOSE, sel, invoked, results, last, prompts, confirm,
                   abnormal>>

\* checkRoot() failed: process.exit(1)
NotRoot(forceShow) ==
    /\ shown' = shown \cup log("Error: This script must be run as root (use sudo)",
                               forceShow, VERBOSE)
    /\ Exit(1, "not root")
    /\ UNCHANGED <<argv, ai, config, REPO_ROOT, files, prsByTicket, isRoot, VERBOSE, sel, invoked, results, last, prompts, confirm,
                   abnormal>>

\* results.filter(r => r[field] === value), as the positions in `results`
Where(field, value) ==
    {k \in 1..Len(results) : Has(results[k], field) /\ results[k][field] = value}

\* results.filter(r => !r.success)
Failed == {k \in 1..Len(results) : IsFailure(results[k])}

\* results.filter(r => r.error)
WithErrors == {k \in 1..Len(results) : Has(results[k], "error") /\ results[k].error # Null}

\* `${selection.length}`
Count(selection) == ToString(Cardinality(selection))

\* failed.forEach(r => log(`  x ${r.service}: ${r.error}`, 'red', forceShow))
FailedLines(forceShow) ==
    UNION {log(Concat("  failed ", Concat(results[k].service, Concat(": ", results[k].error))),
               forceShow, VERBOSE) :
           k \in Failed}

\* `N <what>` printed when N > 0
CountLine(selection, what, forceShow) ==
    IF Cardinality(selection) > 0
    THEN log(Concat(what, Count(selection)), forceShow, VERBOSE) ELSE {}

\* ---- list
listCurrentBranches ==
    /\ pc = "call" /\ command = "list"
    /\ sel' = Entries
    /\ pc' = "loop"
    /\ shown' = shown \cup {"=== Current Branches for All Services ==="}
    /\ UNCHANGED <<argv, ai, config, REPO_ROOT, files, prsByTicket, isRoot, VERBOSE, exitCode, invoked, results, last, prompts, confirm,
                   outcome, abnormal>>

listCurrentBranchesLoop ==
    /\ InLoop("list")
    /\ \E e \in Envs(current.name) :
         /\ Allowed(e)
         /\ Iterate(current, e, getCurrentBranch(current.name, current.path, e), TRUE)

listCurrentBranchesSummary ==
    /\ AfterLoop("list")
    /\ Finish({Concat(results[k].service,
                      Concat(" | ", Concat(results[k].branch,
                             IF results[k].error # Null
                             THEN Concat(" | ", results[k].error) ELSE ""))) :
               k \in 1..Len(results)})

\* ---- branches
listAvailableBranches ==
    /\ pc = "call" /\ command = "branches"
    /\ Enter(Arg(args, 1), {"=== Available Branches ==="}, TRUE)

listAvailableBranchesLoopIn(environments) ==
    /\ InLoop("branches")
    /\ \E e \in environments :
         /\ Allowed(e)
         /\ LET r == getAllBranches(current.name, current.path, e)
            IN  Iterate(current, e, [r EXCEPT !.out = BranchLines(r.recs[1])], FALSE)

listAvailableBranchesLoop == listAvailableBranchesLoopIn(Envs(current.name))

listAvailableBranchesEnd ==
    /\ AfterLoop("branches")
    /\ Finish({})

\* ---- status
showRepositoryStatus ==
    /\ pc = "call" /\ command = "status"
    /\ Enter(Arg(args, 1), {"=== Repository Status Overview ==="}, TRUE)

showRepositoryStatusLoop ==
    /\ InLoop("status")
    /\ \E e \in Envs(current.name) :
         /\ Allowed(e)
         /\ Iterate(current, e, getRepositoryStatus(current.name, current.path, e), TRUE)

showRepositoryStatusSummary ==
    /\ AfterLoop("status")
    /\ Finish({Concat(results[k].service, Concat("  Error: ", results[k].error)) :
                 k \in WithErrors}
              \cup {Concat("Summary: ", Concat(Count(Where("isClean", TRUE)),
                      Concat(" clean, ",
                        Concat(Count(((1..Len(results)) \ Where("isClean", TRUE)) \ WithErrors),
                          Concat(" need attention, ", Concat(Count(WithErrors), " errors"))))))})

\* ---- changes
showUncommittedChanges ==
    /\ pc = "call" /\ command = "changes"
    /\ Enter(Arg(args, 1), {"=== Uncommitted Changes ==="}, TRUE)

showUncommittedChangesLoop ==
    /\ InLoop("changes")
    /\ \E e \in Envs(current.name) :
         /\ Allowed(e)
         /\ Iterate(current, e, changesBody(current.name, current.path, e, VERBOSE), FALSE)

showUncommittedChangesSummary ==
    /\ AfterLoop("changes")
    /\ Finish({"=================================================="})

\* ---- sync
syncRepositories ==
    /\ pc = "call" /\ command = "sync"
    /\ Enter(Arg(args, 1), {"=== Syncing Repositories ==="}, TRUE)

syncRepositoriesLoop ==
    /\ InLoop("sync")
    /\ \E e \in Envs(current.name) :
         /\ Allowed(e)
         /\ Iterate(current, e, syncBody(current.name, current.path, e, VERBOSE), TRUE)

syncRepositoriesSummary ==
    /\ AfterLoop("sync")
    /\ Finish({"=== Sync Summary ==="}
              \cup CountLine(Where("success", TRUE), "Successfully synced: ", TRUE)
              \cup CountLine(Failed, "Failed to sync: ", TRUE)
              \cup FailedLines(TRUE))

\* ---- search
searchInRepositories ==
    /\ pc = "call" /\ command = "search"
    /\ Enter(Positional(2), {Concat("=== Searching for: ", Arg(args, 1))}, TRUE)

searchInRepositoriesLoop ==
    /\ InLoop("search")
    /\ \E e \in Envs(current.name) :
         /\ Allowed(e)
         /\ Iterate(current, e, searchBody(current.name, current.path, e, Arg(args, 1)), FALSE)

searchInRepositoriesSummary ==
    /\ AfterLoop("search")
    /\ Finish({"=================================================="})

\* ---- recent
showRecentActivity ==
    /\ pc = "call" /\ command = "recent"
    /\ Enter(Positional(1), {"=== Recent Activity (Last 7 days) ==="}, TRUE)

showRecentActivityLoop ==
    /\ InLoop("recent")
    /\ \E e \in Envs(current.name) :
         /\ Allowed(e)
         /\ Iterate(current, e, recentBody(current.name, current.path, e), FALSE)

showRecentActivitySummary ==
    /\ AfterLoop("recent")
    /\ Finish({"==================================================",
               "No commits found in the last 7 days"})

\* ---- update
updateBranches ==
    /\ pc = "call" /\ command = "update"
    /\ IF ~isRoot THEN NotRoot(TRUE)
       ELSE Enter(Positional(2),
                  {Concat("=== Updating Services to Branch: ", Arg(args, 1))}, FALSE)

updateBranchesLoop ==
    /\ InLoop("update")
    /\ LET useComposerUpdate == Includes(args, "--composer-update")
           skipDeps == Includes(args, "--skip-deps")
       IN  \E e \in Envs(current.name) :
             /\ Allowed(e)
             /\ Iterate(current, e,
                        updateServiceBranch(current.name, current.path, e, Arg(args, 1),
                                            useComposerUpdate, skipDeps, VERBOSE), TRUE)

\* JSON.stringify of one member of a record: a string in double quotes, a
\* boolean as true or false
Json(field, value) ==
    IF field = "success"
    THEN (IF value THEN "true" ELSE "false")
    ELSE Concat("\"", Concat(value, "\""))

\* a log that lists the records last to first
stringifyReversed(records) ==
    [k \in 1..Len(records) |->
        LET r == records[Len(records) + 1 - k]
            keys == SelectSeq(<<"service", "success", "branch", "commit", "error">>,
                              LAMBDA f : Has(r, f))
        IN  [j \in 1..Len(keys) |-> <<keys[j], Json(keys[j], r[keys[j]])>>]]

\* JSON.stringify(results, null, 2): the array of the objects, each the
\* key-value pairs of the members that are defined, in the order of the
\* object literals of updateServiceBranch
JSONstringify(records) ==
    [k \in 1..Len(records) |->
        LET keys == SelectSeq(<<"service", "success", "branch", "commit", "error">>,
                              LAMBDA f : /\ Has(records[k], f)
                                         /\ (f = "success" \/ records[k][f] # Undefined))
        IN  [j \in 1..Len(keys) |-> <<keys[j], Json(keys[j], records[k][keys[j]])>>]]

\* path.join(logDir, `update-log-${new Date().toISOString().replace(/:/g, '-')}.json`)
logFile == "/home/cmckenna/ren360/update-log-<ISO time>.json"

\* the log directory as the run finds it
LogDirs == {"writable", "read-only", "absent"}

\* The summary of updateBranches and the log of the run: the directory is
\* created when absent, which may fail, and the write may fail.
updateBranchesSummary ==
    /\ AfterLoop("update")
    /\ \E dir \in LogDirs, mkdir \in BOOLEAN :
         /\ (mkdir => dir = "absent")
         /\ LET written == dir = "writable" \/ mkdir
            IN  /\ shown' = shown
                        \cup {"=== Update Summary ==="}
                        \cup CountLine(Where("success", TRUE), "Successfully updated: ", TRUE)
                        \cup CountLine(Failed, "Failed to update: ", TRUE)
                        \cup FailedLines(TRUE)
                        \cup (IF dir = "absent" /\ ~mkdir
                              THEN log("Warning: Could not create log directory", FALSE, VERBOSE)
                              ELSE {})
                        \cup (IF written
                              THEN log(Concat("Log saved to: ", logFile), FALSE, VERBOSE)
                              ELSE log("Failed to save log", FALSE, VERBOSE))
                /\ files' = (IF written
                             THEN files \cup {[path |-> logFile, data |-> JSONstringify(results)]}
                             ELSE files)
    /\ Exit(0, "completed")
    /\ UNCHANGED <<argv, ai, config, REPO_ROOT, prsByTicket, isRoot, VERBOSE, sel, invoked, results, last, prompts,
                   confirm, abnormal>>

\* ---- create
createBranch ==
    /\ pc = "call" /\ command = "create"
    /\ IF ~isRoot THEN NotRoot(FALSE)
       ELSE Enter(Arg(args, 2),
                  log(Concat("=== Creating Branch: REN-", Concat(Arg(args, 1), " from dev ===")),
                      FALSE, VERBOSE),
                  FALSE)

createBranchLoop ==
    /\ InLoop("create")
    /\ LET branchName == Concat("REN-", Arg(args, 1))
       IN  \E e \in Envs(current.name) :
             /\ Allowed(e)
             /\ Iterate(current, e, createBody(current.name, current.path, e, branchName), TRUE)

createBranchSummary ==
    /\ AfterLoop("create")
    /\ Finish(log("=== Branch Creation Summary ===", FALSE, VERBOSE)
              \cup CountLine(Where("success", TRUE), "Successfully created/checked out: ", FALSE)
              \cup CountLine(Failed, "Failed to create branch: ", FALSE)
              \cup FailedLines(FALSE))

\* ---- stash
manageStash ==
    /\ pc = "call" /\ command = "stash"
    /\ sel' = Entries
    /\ pc' = "loop"
    /\ shown' = shown \cup {Concat("=== Stash ", stashAction)}
    /\ UNCHANGED <<argv, ai, config, REPO_ROOT, files, prsByTicket, isRoot, VERBOSE, exitCode, invoked, results, last, prompts, confirm,
                   outcome, abnormal>>

manageStashLoop ==
    /\ InLoop("stash")
    /\ \E e \in Envs(current.name) :
         /\ Allowed(e)
         /\ Iterate(current, e,
                    stashBody(current.name, current.path, e, stashAction, stashMessage), TRUE)

manageStashSummary ==
    /\ AfterLoop("stash")
    /\ Finish({"=================================================="}
              \cup (IF stashAction = "save"
                    THEN {Concat("Stashed changes in ", Concat(Count(Where("status", "saved")),
                            Concat(" services, ", Concat(Count(Where("status", "no changes")),
                              " had no changes"))))}
                    ELSE IF stashAction = "pop"
                    THEN {Concat("Popped stash in ", Concat(Count(Where("status", "popped")),
                            Concat(" services, ", Concat(Count(Where("status", "no stash")),
                              " had no stash"))))}
                    ELSE {Concat("Found stashes across ",
                                 Concat(Count(Where("count", 1)), " services"))}))

\* ---- drop
dropForce == Includes(args, "--force") \/ Includes(args, "-f")

\* dropUncommittedChanges up to the question it awaits the answer of
dropUncommittedChanges ==
    /\ pc = "call" /\ command = "drop"
    /\ LET serviceName == Positional(1)
           header == {"=== Drop Uncommitted Changes ==="}
       IN  IF NotFound(serviceName)
           THEN /\ shown' = shown \cup header \cup log(NotFoundLine(serviceName), TRUE, VERBOSE)
                /\ Exit(0, "service not found")
                /\ UNCHANGED <<sel, prompts>>
           ELSE IF dropForce
           THEN /\ shown' = shown \cup header
                /\ sel' = ServicesTo(serviceName)
                /\ pc' = "loop"
                /\ UNCHANGED <<exitCode, outcome, prompts>>
           ELSE /\ shown' = shown \cup header
                              \cup {"WARNING: This will permanently delete all uncommitted changes!"}
                /\ sel' = ServicesTo(serviceName)
                /\ prompts' = prompts + 1
                /\ pc' = "confirm"
                /\ UNCHANGED <<exitCode, outcome>>
    /\ UNCHANGED <<argv, ai, config, REPO_ROOT, files, prsByTicket, isRoot, VERBOSE, invoked, results, last, confirm, abnormal>>

\* an answer taken for a yes when it is "y" too
ConfirmedByInitial(answer) == ToLowerCase(answer) \in {"yes", "y"}

\* !(confirm.toLowerCase() !== 'yes')
Confirmed(answer) == ToLowerCase(answer) = "yes"

\* the answer to the question arrives
dropAnswer ==
    /\ pc = "confirm"
    /\ \E answer \in Answers :
         /\ confirm' = answer
         /\ IF Confirmed(answer)
            THEN pc' = "loop" /\ UNCHANGED <<shown, exitCode, outcome>>
            ELSE shown' = shown \cup {"Operation cancelled."} /\ Exit(0, "cancelled")
    /\ UNCHANGED <<argv, ai, config, REPO_ROOT, files, prsByTicket, isRoot, VERBOSE, sel, invoked, results, last, prompts, abnormal>>

dropLoop ==
    /\ InLoop("drop")
    /\ \E e \in Envs(current.name) :
         /\ Allowed(e)
         /\ Iterate(current, e, dropBody(current.name, current.path, e, VERBOSE), TRUE)

dropSummary ==
    /\ AfterLoop("drop")
    /\ Finish({"=================================================="}
              \cup CountLine(Where("success", TRUE) \cap Where("status", "changes dropped"),
                             "Dropped changes in ", TRUE)
              \cup CountLine(Where("success", TRUE) \cap Where("status", "no changes"),
                             "No changes to drop in ", TRUE)
              \cup CountLine(Failed, "Failed to process ", TRUE)
              \cup FailedLines(TRUE))

\* ---- pr
createPullRequest ==
    /\ pc = "call" /\ command = "pr"
    /\ IF ~Truthy(TitleOf(prTitle))
       THEN /\ shown' = shown \cup {"Error: PR title is required"}
            /\ Exit(0, "no title")
            /\ UNCHANGED <<argv, ai, config, REPO_ROOT, files, prsByTicket, isRoot, VERBOSE, sel, invoked, results, last, prompts, confirm,
                           abnormal>>
       ELSE Enter(Positional(1), {"=== Creating Pull Request ==="}, TRUE)

createPullRequestLoop ==
    /\ InLoop("pr")
    /\ \E e \in Envs(current.name) :
         /\ Allowed(e)
         /\ Iterate(current, e,
                    prBody(current.name, current.path, e, TitleOf(prTitle), Undefined, FALSE),
                    TRUE)

createPullRequestSummary ==
    /\ AfterLoop("pr")
    /\ Finish({"=================================================="}
              \cup CountLine(Where("success", TRUE), "Successfully created PR(s): ", TRUE)
              \cup CountLine(Failed, "Failed to create PR(s): ", TRUE)
              \cup FailedLines(TRUE))

\* ---- prs
listAllPullRequests ==
    /\ pc = "call" /\ command = "prs"
    /\ shown' = shown \cup {Concat("=== Listing Pull Requests: ", prState)}
    /\ sel' = Entries
    /\ pc' = "loop"
    /\ UNCHANGED <<argv, ai, config, REPO_ROOT, files, prsByTicket, isRoot, VERBOSE, exitCode, invoked, results, last,
                   prompts, confirm, outcome, abnormal>>

listAllPullRequestsLoopIn(environments) ==
    /\ InLoop("prs")
    /\ \E e \in environments :
         /\ Allowed(e)
         /\ LET r == prsBody(current.name, current.path, e, prState, isRoot)
            IN  /\ prsByTicket' = Grouped(prsByTicket, r.recs)
                /\ invoked' = Append(invoked, current.name)
                /\ last' = [service |-> current.name, path |-> current.path, env |-> e,
                            cmds |-> r.cmds, recs |-> r.recs]
                /\ abnormal' = abnormal + (IF e = Normal THEN 0 ELSE 1)
                /\ results' = results \o r.recs
    /\ UNCHANGED <<argv, ai, config, REPO_ROOT, files, isRoot, VERBOSE, pc, exitCode, sel, shown, prompts, confirm,
                   outcome>>

listAllPullRequestsLoop == listAllPullRequestsLoopIn(Envs(current.name))

\* The display of listAllPullRequests: the groups, the other pull requests and
\* the review commands of the groups of more than one pull request.
listAllPullRequestsEnd ==
    /\ AfterLoop("prs")
    /\ results' = SortByDate(results)
    /\ shown' = shown \cup
         IF results = <<>> THEN {Concat(Concat("No ", prState), " PRs found across any services.")}
         ELSE {Concat("Found ", Concat(ToString(Len(results)), " PR(s)"))}
              \cup (IF prsByTicket # <<>> THEN {"=== PRs by Ticket ==="} ELSE {})
              \cup {Concat(Join(prsByTicket[k].ticket),
                           Concat(": ", ToString(Len(prsByTicket[k].prs)))) :
                    k \in 1..Len(prsByTicket)}
              \cup UNION {{Concat("  ", Concat(prsByTicket[k].prs[j].service,
                                               Concat(": ", Join(prsByTicket[k].prs[j].title)))) :
                           j \in 1..Len(prsByTicket[k].prs)} :
                          k \in 1..Len(prsByTicket)}
              \cup (IF prsWithoutTickets(results) # <<>> THEN {"=== Other PRs ==="} ELSE {})
              \cup {Concat(pr.service, Concat(": ", Join(pr.title))) :
                    pr \in {prsWithoutTickets(results)[k] :
                            k \in 1..Len(prsWithoutTickets(results))}}
              \cup {"=== Quick Review Commands ==="}
              \cup (IF \E k \in 1..Len(prsByTicket) : Len(prsByTicket[k].prs) > 1
                    THEN {"Multi-service tickets (use AI review):"} ELSE {})
              \cup {Concat("  node repo-manager.js review ",
                           Concat(Join(SubSeq(prsByTicket[k].ticket, 5,
                                              Len(prsByTicket[k].ticket))),
                                  " --analyze")) :
                    k \in {g \in 1..Len(prsByTicket) : Len(prsByTicket[g].prs) > 1}}
    /\ Exit(0, "completed")
    /\ UNCHANGED <<argv, ai, config, REPO_ROOT, files, prsByTicket, isRoot, VERBOSE, sel, invoked, last, prompts,
                   confirm, abnormal>>

\* ---- review <ticket> [--analyze]
reviewPullRequests ==
    /\ pc = "call" /\ command = "review"
    /\ shown' = shown \cup {Concat("=== Searching for PRs: REN-", Arg(args, 1))}
    /\ sel' = Entries
    /\ pc' = "loop"
    /\ UNCHANGED <<argv, ai, config, REPO_ROOT, files, prsByTicket, isRoot, VERBOSE, exitCode, invoked,
                   results, last, prompts, confirm, outcome, abnormal>>

\* The body of the loop of reviewPullRequests: gh pr list prints the pull
\* requests of the repository that match the search pattern, gh pr view is
\* run for each of them, and the catch around both is empty, so the pull
\* requests viewed before a failure stay in allPRs.
reviewPullRequestsLoop ==
    /\ InLoop("review")
    /\ \E e \in Envs(current.name) :
         /\ Allowed(e)
         /\ LET searchPattern == Concat("REN-", Arg(args, 1))
                sudo == IF isRoot THEN "sudo -u www-data " ELSE ""
                prListCommand_ ==
                    Concat(sudo, Concat("gh pr list --search \"",
                      Concat(searchPattern, "\" --state all --json number,title,state,url,isDraft,createdAt,author,headRefName")))
                prDetailsCommand(pr) ==
                    Concat(sudo, Concat("gh pr view ",
                      Concat(ToString(pr.number), " --json files,additions,deletions,body,reviews,comments")))
                listed == Run(<<Cmd(prListCommand_, FALSE, Throw)>>, e)
                prs == IF listed.error # NoError THEN <<>>
                       ELSE SelectSeq(e.prs, LAMBDA pr :
                                               Join(toUpperCase(ticketMatch(pr))) = searchPattern)
                viewed == Run([k \in 1..Len(prs) |-> Cmd(prDetailsCommand(prs[k]), FALSE, Throw)], e)
                pushed == IF viewed.error = NoError THEN Len(prs) ELSE Len(viewed.cmds) - 1
                cmds == IF existsSync(current.path, e) THEN listed.cmds \o viewed.cmds ELSE <<>>
                recs == IF existsSync(current.path, e)
                        THEN [k \in 1..pushed |->
                                [service |-> current.name, number |-> prs[k].number,
                                 title |-> prs[k].title, headRefName |-> prs[k].headRefName,
                                 createdAt |-> prs[k].createdAt, state |-> prs[k].state]]
                        ELSE <<>>
            IN  /\ invoked' = Append(invoked, current.name)
                /\ last' = [service |-> current.name, path |-> current.path, env |-> e,
                            cmds |-> cmds, recs |-> recs]
                /\ abnormal' = abnormal + (IF e = Normal THEN 0 ELSE 1)
                /\ results' = results \o recs
                /\ shown' = shown \cup
                     {Concat(recs[k].service,
                             Concat(": PR #", Concat(ToString(recs[k].number),
                                                     Concat(": ", Join(recs[k].title))))) :
                      k \in 1..Len(recs)}
    /\ UNCHANGED <<argv, ai, config, REPO_ROOT, files, prsByTicket, isRoot, VERBOSE, pc, exitCode, sel,
                   prompts, confirm, outcome>>

\* the end of the review without the try around the analysis: a failure of
\* the request leaves main
reviewPullRequestsEndUncaught ==
    /\ AfterLoop("review")
    /\ ai' \in [module : BOOLEAN, apiKey : {Undefined, "", "sk-key"},
                call : {"answers", "fails"}, tmp : {"writable", "read-only"}]
    /\ shown' = shown \cup {"=== AI Analysis ==="}
    /\ files' = files
    /\ IF ai'.module /\ Truthy(ai'.apiKey) /\ ai'.call = "fails"
       THEN Exit(1, "fatal") ELSE Exit(0, "completed")
    /\ UNCHANGED <<argv, config, REPO_ROOT, prsByTicket, isRoot, VERBOSE, sel, invoked, results, last,
                   prompts, confirm, abnormal>>

\* reviewPullRequests after its loop: the summary, the analysis when it is
\* asked for and a pull request was found, and the quick actions.  The try
\* around the analysis catches the failure of the request to the API and of
\* the write of the file, and prints it.  ai' is what the analysis finds:
\* require('./lib/ai-agent') succeeded, what loadApiKey() returns, how the
\* request ends, whether /tmp can be written.
reviewPullRequestsEnd ==
    /\ AfterLoop("review")
    /\ ai' \in [module : BOOLEAN, apiKey : {Undefined, "", "sk-key"},
                call : {"answers", "fails"}, tmp : {"writable", "read-only"}]
    /\ (Includes(args, "--analyze") /\ results # <<>>) \/ ai' = ai
    /\ LET ticketNumber == Arg(args, 1)
           searchPattern == Concat("REN-", ticketNumber)
           analyze == Includes(args, "--analyze")
           openPRs == SelectSeq(results, LAMBDA pr : pr.state = "OPEN")
           \* loadApiKey && loadApiKey()
           apiKey == IF ai'.module THEN ai'.apiKey ELSE Undefined
           automated == Truthy(apiKey) /\ ai'.module
           analysisFile == IF automated
                           THEN Concat("/tmp/pr-ai-analysis-", Concat(ticketNumber, ".md"))
                           ELSE Concat("/tmp/pr-analysis-", Concat(ticketNumber, ".txt"))
           prSummary == [k \in 1..Len(results) |->
                           <<<<"service", results[k].service>>,
                             <<"title", Join(results[k].title)>>>>]
           data == IF automated
                   THEN <<<<<<"# AI Analysis for", searchPattern>>, <<"analysis", "<analysis>">>>>>>
                   ELSE <<<<<<"Analyze these pull requests for ticket", searchPattern>>>>>>
                        \o prSummary
           thrown == IF automated /\ ai'.call = "fails" THEN "AI Analysis failed"
                     ELSE IF ai'.tmp = "read-only" THEN "EACCES: permission denied"
                     ELSE NoError
           analysis ==
               {"=== AI Analysis ==="}
               \cup (IF automated
                     THEN {"Running automated AI analysis..."}
                          \cup (IF ai'.call = "fails" THEN {}
                                ELSE {"AI Analysis Complete:", "<analysis>"})
                          \cup (IF thrown # NoError THEN {}
                                ELSE {Concat("Analysis saved to: ", analysisFile)}
                                     \cup (IF openPRs # <<>>
                                           THEN {"Additional AI Analysis Options:"} ELSE {}))
                     ELSE {"AI Agent not configured. To enable automated analysis:"}
                          \cup (IF thrown # NoError THEN {}
                                ELSE {Concat("Manual analysis prompt saved to: ", analysisFile),
                                      "To get AI analysis manually:",
                                      Concat("  cat ", Concat(analysisFile, " | <your-ai-tool>"))}))
               \cup (IF thrown # NoError
                     THEN {Concat("Error in AI analysis: ", thrown)} ELSE {})
       IN  IF results = <<>>
           THEN /\ shown' = shown \cup {"============================================================",
                                        Concat("No PRs found for ticket ", searchPattern)}
                /\ files' = files
                /\ Exit(0, "no PRs found")
           ELSE /\ shown' = shown \cup {"============================================================",
                                        Concat("=== Summary for ", searchPattern),
                                        Concat("Total PRs: ", ToString(Len(results))),
                                        "Status breakdown:"}
                                  \cup (IF openPRs # <<>>
                                        THEN {Concat("  Open: ", ToString(Len(openPRs)))} ELSE {})
                                  \cup (IF analyze THEN analysis ELSE {})
                                  \cup {"=== Quick Actions ==="}
                                  \cup {Concat("Review ", Concat(openPRs[k].service, " PR:")) :
                                        k \in 1..Len(openPRs)}
                /\ files' = (IF analyze /\ thrown = NoError
                             THEN files \cup {[path |-> analysisFile, data |-> data]}
                             ELSE files)
                /\ Exit(0, "completed")
    /\ UNCHANGED <<argv, config, REPO_ROOT, prsByTicket, isRoot, VERBOSE, sel, invoked, results, last,
                   prompts, confirm, abnormal>>

Next ==
    \/ Main
    \/ listCurrentBranches \/ listCurrentBranchesLoop \/ listCurrentBranchesSummary
    \/ listAvailableBranches \/ listAvailableBranchesLoop \/ listAvailableBranchesEnd
    \/ showRepositoryStatus \/ showRepositoryStatusLoop \/ showRepositoryStatusSummary
    \/ showUncommittedChanges \/ showUncommittedChangesLoop \/ showUncommittedChangesSummary
    \/ updateBranches \/ updateBranchesLoop \/ updateBranchesSummary
    \/ syncRepositories \/ syncRepositoriesLoop \/ syncRepositoriesSummary
    \/ searchInRepositories \/ searchInRepositoriesLoop \/ searchInRepositoriesSummary
    \/ showRecentActivity \/ showRecentActivityLoop \/ showRecentActivitySummary
    \/ manageStash \/ manageStashLoop \/ manageStashSummary
    \/ dropUncommittedChanges \/ dropAnswer \/ dropLoop \/ dropSummary
    \/ createPullRequest \/ createPullRequestLoop \/ createPullRequestSummary
    \/ createBranch \/ createBranchLoop \/ createBranchSummary
    \/ listAllPullRequests \/ listAllPullRequestsLoop \/ listAllPullRequestsEnd
    \/ reviewPullRequests \/ reviewPullRequestsLoop \/ reviewPullRequestsEnd

Spec == Init /\ [][Next]_vars

----------------------------------------------------------------------------
\* The branch listing of one repository over the outputs of git branch -a

\* lines git branch -a can print, and the four lines of the documented fixture
Lines ==
    {<<"*", " ", "main">>,
     <<"remotes/origin/", "main">>,
     <<"remotes/origin/", "HEAD">>,
     <<"remotes/origin/", "dev">>,
     <<" ", " ", "dev">>,
     <<" ", " ", "remotes/origin/", "main">>,
     <<" ", " ", "remotes/origin/", "HEAD", " ", "->", " ", "origin/main">>,
     <<>>}

\* the repository with each output of at most MaxLines lines
EnvsListings ==
    {[Normal EXCEPT !.listing = l] : l \in UNION {[1..n -> Lines] : n \in 0..MaxLines}}

InitBranches ==
    /\ Init
    /\ argv = <<"branches", "frontend">>

NextBranches ==
    \/ Main
    \/ listAvailableBranches
    \/ listAvailableBranchesLoopIn(EnvsListings)
    \/ listAvailableBranchesEnd

SpecBranches == InitBranches /\ [][NextBranches]_vars

----------------------------------------------------------------------------
\* The listing of pull requests over the outputs of gh pr list

\* pull requests gh pr list can print: a ticket in the title in either case,
\* a ticket in the head branch only, two tickets, REN- and no digit, no ticket
PullRequests ==
    LET fix == <<"f", "i", "x">>
        dev == <<"d", "e", "v">>
        PR(n, t, h) == [number |-> n, title |-> t, headRefName |-> h, createdAt |-> n]
    IN  {PR(1, <<"R", "E", "N", "-", "1", "2", " ", "f", "i", "x">>, dev),
         PR(2, <<"r", "e", "n", "-", "1", "2">>, dev),
         PR(3, fix, <<"R", "e", "n", "-", "7", "-", "f", "i", "x">>),
         PR(4, fix, dev),
         PR(5, <<"R", "E", "N", "-", "7", " ", "R", "E", "N", "-", "1", "2">>,
               <<"R", "E", "N", "-", "1", "2">>),
         PR(6, <<"R", "E", "N", "-", "x">>, dev)}

\* The first repository with each output of at most MaxPRs different pull
\* requests; every other repository lists one pull request of REN-12, is
\* missing or has a gh that fails.
EnvsPRs ==
    IF current.name # ServiceNames[1] THEN Envs(current.name)
    ELSE {[Normal EXCEPT !.prs = l] :
          l \in {q \in UNION {[1..n -> PullRequests] : n \in 0..MaxPRs} :
                 \A i, j \in DOMAIN q : q[i].number = q[j].number => i = j}}

InitPRs ==
    /\ Init
    /\ argv = <<"prs">>

NextPRs ==
    \/ Main
    \/ listAllPullRequests
    \/ listAllPullRequestsLoopIn(EnvsPRs)
    \/ listAllPullRequestsEnd

SpecPRs == InitPRs /\ [][NextPRs]_vars

----------------------------------------------------------------------------
\* The repository root over the configurations

\* each source absent, without a value, or with a value of its own
Configurations ==
    LET rc(root) == {[exists |-> FALSE, parses |-> FALSE, repoRoot |-> Undefined],
                     [exists |-> TRUE, parses |-> FALSE, repoRoot |-> Undefined],
                     [exists |-> TRUE, parses |-> TRUE, repoRoot |-> Undefined],
                     [exists |-> TRUE, parses |-> TRUE, repoRoot |-> root]}
    IN  [flag : {Undefined, "", "/flag"},
         r : {Undefined, "/r"},
         REN360_REPO_ROOT : {Undefined, "", "/env"},
         REPO_ROOT : {Undefined, "/other"},
         local : rc("/local"),
         home : rc("/home"),
         dotenv : {[exists |-> FALSE, lines |-> <<>>],
                   [exists |-> TRUE, lines |-> <<<<"GH_TOKEN=", "abc">>>>],
                   [exists |-> TRUE, lines |-> <<<<"GH_TOKEN=", "abc">>,
                                                 <<"REPO_ROOT=", "/dotenv", " ">>>>],
                   [exists |-> TRUE, lines |-> <<<<"REPO_ROOT=", " ">>>>],
                   [exists |-> TRUE, lines |-> <<<<"# ", "REPO_ROOT=", "/commented">>>>]}]

InitRoot ==
    /\ argv = <<"help">> /\ isRoot = FALSE /\ VERBOSE = FALSE /\ pc = "main"
    /\ exitCode = -1 /\ sel = <<>> /\ invoked = <<>> /\ results = <<>>
    /\ last = NoIteration /\ shown = {} /\ prompts = 0 /\ confirm = Undefined
    /\ outcome = "running" /\ abnormal = 0 /\ files = {} /\ prsByTicket = <<>>
    /\ config \in Configurations
    /\ REPO_ROOT = DEFAULT_REPO_ROOT
    /\ ai = [module |-> FALSE, apiKey |-> Undefined, call |-> "answers", tmp |-> "writable"]

SpecRoot == InitRoot /\ [][Main]_vars

----------------------------------------------------------------------------
\* Properties

\* the names of the selected repositories, in registry order
Selected == [k \in 1..Len(sel) |-> sel[k].name]

IsPrefix(p, q) == Len(p) <= Len(q) /\ \A k \in 1..Len(p) : p[k] = q[k]

FanOut == {"update", "sync", "drop", "create", "pr", "stash", "status", "branches"}

\* C1: in every fan-out command a failure on one repository never prevents the
\* operation from being invoked on the later ones: the repositories are invoked
\* in the order of the selection, and once the loop has started the run ends
\* only after the last selected repository has been invoked.
C1_ContinueOnError ==
    command \in FanOut =>
        /\ IsPrefix(invoked, Selected)
        /\ (pc = "exit" /\ invoked # <<>>) => invoked = Selected

\* C1 happens: a batch over the whole registry ends after a failure on a
\* repository that is not the last one.
C1_Witness ==
    /\ command = "update" /\ pc = "exit" /\ Len(sel) = Len(ServiceNames)
    /\ invoked = Selected
    /\ \E k \in 1..(Len(results) - 1) : IsFailure(results[k])

\* commands whose function keeps a `results` array
KeepsResults == {"list", "status", "update", "sync", "stash", "drop", "pr", "create"}

\* C2: a fan-out operation yields exactly one record per selected repository,
\* in registry order: at every point of the loop the results list has one
\* record for each repository invoked so far, in that order, so at the end one
\* for each selected repository.
C2_OneRecordPerRepository ==
    command \in KeepsResults =>
        /\ Len(results) = Len(invoked)
        /\ \A k \in 1..Len(results) : results[k].service = invoked[k]

\* the per-repository operations that check the path first
PerRepository ==
    {"list", "branches", "status", "update", "sync", "drop", "stash", "create", "pr"}

\* the last iteration ran on a path that does not exist
OnMissingPath == last.service # Undefined /\ ~existsSync(last.path, last.env)

\* C3: every per-repository operation on a path that does not exist produces
\* a result with success=false and error="Directory not found" and issues no
\* external command for that repository.
C3_DirectoryNotFound ==
    (command \in PerRepository /\ OnMissingPath) =>
        /\ last.cmds = <<>>
        /\ Len(last.recs) = 1
        /\ IsFailure(last.recs[1])
        /\ last.recs[1].error = DirectoryNotFound

\* the position of the service name among the arguments of each command
ServicePosition ==
    CASE command \in {"branches", "status", "changes", "sync", "recent", "drop", "pr"} -> 1
      [] command \in {"update", "create", "search"} -> 2
      [] OTHER -> 0

\* the service name given on the command line, if one is given
NamePassed ==
    IF ServicePosition > 0 /\ Arg(args, ServicePosition) # Undefined
       /\ ~StartsWithDashes(Arg(args, ServicePosition))
    THEN Arg(args, ServicePosition) ELSE Undefined

UnknownNamePassed ==
    NamePassed # Undefined /\ NamePassed \notin {ServiceNames[k] : k \in 1..Len(ServiceNames)}

\* the run got as far as the command's function looking at its service name
OperationRan ==
    pc = "exit" /\ outcome \in {"service not found", "completed", "cancelled"}

\* C4: an operation given a service name that is not in the registry reports
\* "Service '<name>' not found", runs on no repository, and never falls back to
\* processing all services.
C4_UnknownService ==
    UnknownNamePassed =>
        /\ invoked = <<>>
        /\ OperationRan =>
             Concat("Error: Service '", Concat(NamePassed, "' not found")) \in shown

\* C5: the exit code is non-zero exactly for a usage error, missing root
\* privilege for update/create, an unknown command or an unknown service name;
\* a batch that completes with failures exits with 0.
C5_ExitCode ==
    pc = "exit" =>
        (exitCode # 0 <=>
            \/ outcome \in {"usage", "not root", "unknown command"}
            \/ UnknownNamePassed)

Issued(c) == \E k \in 1..Len(last.cmds) : last.cmds[k] = c

\* the last iteration's check of the remote branch was made and failed
RemoteBranchMissing ==
    /\ command = "update" /\ last.service # Undefined
    /\ Issued(VerifyRemote(Arg(args, 1)))
    /\ Fails(last.env, verifyRemote(last.env, Arg(args, 1)))

\* C6: in update, if the target branch does not exist on the remote the
\* operation returns success=false with the error "Branch '<b>' does not exist
\* in remote" and issues no checkout, pull or dependency-installation command
\* for that repository.
C6_RemoteBranchMissing ==
    RemoteBranchMissing =>
        /\ last.recs = <<[service |-> last.service, success |-> FALSE,
                          error |-> Concat("Branch '",
                                      Concat(Arg(args, 1), "' does not exist in remote"))]>>
        /\ ~Issued(Checkout(Arg(args, 1)))
        /\ ~Issued(gitCommand("pull"))
        /\ ~Issued("sudo -u www-data npm install")
        /\ \A u \in BOOLEAN : ~Issued(ComposerLine(last.service, u))
        /\ last.cmds[Len(last.cmds)] = VerifyRemote(Arg(args, 1))

\* C6 happens: the remote branch is missing in a repository with local
\* changes, which were stashed before the check.
C6_Witness ==
    RemoteBranchMissing /\ Issued(AutoStash) /\ Len(invoked) = 2

\* C7: every status record has isClean true if and only if uncommittedFiles,
\* commitsAhead and commitsBehind are all zero.
C7_IsClean ==
    command = "status" =>
        \A k \in 1..Len(results) :
            Has(results[k], "isClean") =>
                (results[k].isClean <=>
                    /\ results[k].uncommittedFiles = 0
                    /\ results[k].commitsAhead = 0
                    /\ results[k].commitsBehind = 0)

\* C7 happens: a repository without local changes that is behind its remote
\* is reported not clean.
C7_Witness ==
    /\ command = "status" /\ Len(results) > 0
    /\ LET r == results[Len(results)]
       IN  /\ Has(r, "isClean") /\ ~r.isClean
           /\ r.uncommittedFiles = 0 /\ r.commitsAhead = 0 /\ r.commitsBehind > 0

Destructive == {ResetHard, CleanFd}

\* C8: drop without force asks for confirmation once, before any repository is
\* touched; any answer that is not "yes" in some letter case cancels the run
\* with no destructive command; with force no confirmation is asked.
C8_Confirmation ==
    command = "drop" =>
        /\ prompts <= 1
        /\ dropForce => prompts = 0 /\ confirm = Undefined
        /\ (~dropForce /\ (pc = "confirm" \/ invoked # <<>>)) => prompts = 1
        /\ (~dropForce /\ invoked # <<>>) => ToLowerCase(confirm) = "yes"
        /\ (confirm # Undefined /\ ToLowerCase(confirm) # "yes") =>
               /\ pc = "exit" /\ outcome = "cancelled"
               /\ "Operation cancelled." \in shown
               /\ invoked = <<>>
               /\ \A c \in Destructive : ~Issued(c)

\* C8 happens: the question was asked once, answered "y", and the run was
\* cancelled with no repository touched.
C8_Witness ==
    /\ command = "drop" /\ ~dropForce /\ prompts = 1 /\ confirm = "y"
    /\ outcome = "cancelled" /\ invoked = <<>>

\* position of command line c among those of the last iteration, 0 if absent
Position(c) == IndexOf(last.cmds, c, 1)

\* the last iteration was a drop in a repository where every git command
\* exited as the state of the repository has it
DroppedIn == command = "drop" /\ last.service # Undefined
             /\ existsSync(last.path, last.env) /\ last.env.fault = "none"

\* C9: drop on a repository without modified tracked files and untracked files
\* yields success "no changes" and issues neither reset --hard nor clean -fd;
\* with any such change it issues reset --hard HEAD, then clean -fd, and
\* yields success "changes dropped".
C9_DropStatus ==
    DroppedIn =>
        IF ~last.env.dirty /\ ~last.env.untracked
        THEN /\ last.recs = <<[service |-> last.service, success |-> TRUE,
                               status |-> "no changes"]>>
             /\ \A c \in Destructive : ~Issued(c)
        ELSE /\ Len(last.recs) = 1
             /\ IsSuccess(last.recs[1]) /\ last.recs[1].status = "changes dropped"
             /\ Position(ResetHard) > 0
             /\ Position(CleanFd) = Position(ResetHard) + 1

\* C9 happens: a repository whose only change is an untracked file had it
\* dropped.
C9_Witness ==
    /\ DroppedIn /\ ~last.env.dirty /\ last.env.untracked
    /\ Issued(CleanFd) /\ last.recs[1].status = "changes dropped"

\* the names of a listing before the filter: trimmed non-empty lines without
\* the marker and the remote prefix
Names(output) ==
    LET trimmed == SelectSeq([k \in 1..Len(output) |-> Trim(output[k])], NonEmpty)
    IN  [k \in 1..Len(trimmed) |-> Join(StripRemote(StripMarker(trimmed[k])))]

Fixture ==
    <<<<"*", " ", "main">>, <<"remotes/origin/", "main">>, <<"remotes/origin/", "HEAD">>,
      <<"remotes/origin/", "dev">>>>

\* the last iteration listed the branches of a repository
Listed ==
    /\ command = "branches" /\ last.service # Undefined
    /\ Len(last.recs) = 1 /\ last.recs[1].error = Null

StashSavedIn ==
    /\ command = "stash" /\ stashAction = "save" /\ last.service # Undefined
    /\ existsSync(last.path, last.env) /\ last.env.fault = "none"

\* the message stash save pushes with
SaveMessage == IF stashMessage = "" THEN DefaultStashMessage ELSE stashMessage

\* C11: stash save on a clean repository returns status "no changes" and
\* issues no stash push; on a repository with any uncommitted change (modified,
\* staged or untracked) it issues stash push and returns status "saved" with a
\* non-empty message, the timestamped default when the user gives none.
C11_StashSave ==
    StashSavedIn =>
        IF ~last.env.dirty /\ ~last.env.untracked
        THEN /\ last.recs = <<[service |-> last.service, action |-> "save",
                               status |-> "no changes"]>>
             /\ ~Issued(StashPush(SaveMessage))
        ELSE /\ Issued(StashPush(SaveMessage))
             /\ last.recs = <<[service |-> last.service, action |-> "save",
                               status |-> "saved", message |-> SaveMessage]>>
             /\ SaveMessage # ""

\* an update run went over its repositories to the end of updateBranches
UpdateRan == command = "update" /\ outcome = "completed"

\* the value of member `key` of a stringified object
Member(object, key) ==
    LET at == {j \in 1..Len(object) : object[j][1] = key}
    IN  IF at = {} THEN Undefined ELSE object[CHOOSE j \in at : TRUE][2]

\* a stringified object has the members of a record and no other
IsRecord(object, r) ==
    /\ Len(object) = Cardinality(DOMAIN r)
    /\ \A f \in DOMAIN r : Member(object, f) = Json(f, r[f])

\* C12: after an update run over N repositories the number of successful and
\* of failed records add up to N, the successful count is the number of
\* records with success = true, and the JSON log written for the run holds
\* exactly those N records in the same order.
C12_UpdateLog ==
    UpdateRan =>
        /\ Len(results) = Len(sel)
        /\ Cardinality(Where("success", TRUE)) + Cardinality(Failed) = Len(sel)
        /\ Where("success", TRUE) = {k \in 1..Len(results) : results[k].success = TRUE}
        /\ \A f \in files :
             /\ f.path = logFile
             /\ Len(f.data) = Len(sel)
             /\ \A k \in 1..Len(sel) :
                  /\ IsRecord(f.data[k], results[k])
                  /\ Member(f.data[k], "service") = Json("service", sel[k].name)

\* an update of every service, one directory missing, was logged
C12_Witness ==
    /\ UpdateRan /\ Len(sel) = Len(ServiceNames)
    /\ \E k \in Failed : results[k].error = DirectoryNotFound
    /\ Where("success", TRUE) # {}
    /\ files # {}

\* the ticket REN-<digits> read by eye in the texts of PullRequests, upper-cased
TicketIn(text) ==
    CASE text = <<"R", "E", "N", "-", "1", "2", " ", "f", "i", "x">> -> <<"R", "E", "N", "-", "1", "2">>
      [] text = <<"R", "E", "N", "-", "1", "2">> -> <<"R", "E", "N", "-", "1", "2">>
      [] text = <<"r", "e", "n", "-", "1", "2">> -> <<"R", "E", "N", "-", "1", "2">>
      [] text = <<"R", "E", "N", "-", "7", " ", "R", "E", "N", "-", "1", "2">> -> <<"R", "E", "N", "-", "7">>
      [] text = <<"R", "e", "n", "-", "7", "-", "f", "i", "x">> -> <<"R", "E", "N", "-", "7">>
      [] OTHER -> <<>>

\* the ticket of a pull request: that of its title or, failing that, of its head branch
TicketOf(pr) == IF TicketIn(pr.title) # <<>> THEN TicketIn(pr.title) ELSE TicketIn(pr.headRefName)

\* the groups a pull request is a member of
GroupsOf(pr) ==
    {g \in 1..Len(prsByTicket) : \E j \in 1..Len(prsByTicket[g].prs) : prsByTicket[g].prs[j] = pr}

\* the pull requests shown under Other PRs
Ungrouped == {prsWithoutTickets(results)[k] : k \in 1..Len(prsWithoutTickets(results))}

\* C13: each pull request whose title or, failing that, head branch holds
\* REN-<digits> in any case is in the group keyed by the upper-cased ticket,
\* one group per key whatever the service; a pull request without a ticket is
\* only among the ungrouped; no pull request is both in a group and ungrouped
\* or in two groups.
C13_Grouping ==
    /\ LET ungrouped == Ungrouped
       IN  \A pr \in {results[k] : k \in 1..Len(results)} :
             IF TicketOf(pr) # <<>>
             THEN /\ \E g \in 1..Len(prsByTicket) :
                       /\ GroupsOf(pr) = {g}
                       /\ prsByTicket[g].ticket = TicketOf(pr)
                       /\ Cardinality({j \in 1..Len(prsByTicket[g].prs) :
                                         prsByTicket[g].prs[j] = pr}) = 1
                  /\ pr \notin ungrouped
             ELSE GroupsOf(pr) = {} /\ pr \in ungrouped
    /\ \A g, h \in 1..Len(prsByTicket) :
         /\ prsByTicket[g].ticket = prsByTicket[h].ticket => g = h
         /\ \A j \in 1..Len(prsByTicket[g].prs) :
              \E k \in 1..Len(results) : results[k] = prsByTicket[g].prs[j]

\* a listing ended with a group of pull requests of several services, one of
\* them with its ticket in lower case, and a pull request without a ticket
C13_Witness ==
    /\ command = "prs" /\ outcome = "completed"
    /\ \E g \in 1..Len(prsByTicket) :
         /\ \E i, j \in 1..Len(prsByTicket[g].prs) :
              /\ prsByTicket[g].prs[i].service # prsByTicket[g].prs[j].service
              /\ prsByTicket[g].prs[i].title = <<"r", "e", "n", "-", "1", "2">>
    /\ \E pr \in Ungrouped : pr.title = <<"f", "i", "x">>

\* the REPO_ROOT entry of .env: the text of a line that starts with REPO_ROOT=
DotEnvEntry ==
    IF config.dotenv.exists
       /\ \E k \in 1..Len(config.dotenv.lines) :
            config.dotenv.lines[k] = <<"REPO_ROOT=", "/dotenv", " ">>
    THEN "/dotenv" ELSE Undefined

\* the values of the sources in the documented order, the default last
Sources ==
    <<config.flag, config.r, config.REN360_REPO_ROOT,
      IF config.local.exists /\ config.local.parses THEN config.local.repoRoot ELSE Undefined,
      IF config.home.exists /\ config.home.parses THEN config.home.repoRoot ELSE Undefined,
      DotEnvEntry, DEFAULT_REPO_ROOT>>

\* C14: the repository root is the value of the first source that has one, in
\* the order command line flag, REN360_REPO_ROOT, .ren360rc of the current
\* directory, .ren360rc of the home directory, REPO_ROOT entry of .env,
\* default; a source that is absent, unparsable or without a value falls
\* through to the next.
C14_Precedence ==
    pc # "main" =>
        \E k \in 1..Len(Sources) :
            /\ REPO_ROOT = Sources[k]
            /\ Sources[k] \notin {Undefined, ""}
            /\ \A j \in 1..(k - 1) : Sources[j] \in {Undefined, ""}

\* C15: `update <branch>` exits with zero when every service was updated
\* and with a non-zero status when at least one service failed.
C15_UpdateExit ==
    UpdateRan /\ pc = "exit" => (exitCode = 0 <=> Failed = {})

\* the arguments git is run with by the commands of the run
GitArguments ==
    LET branches == {"dev", "REN-1", "REN-1234", "main", "master"}
    IN  {"rev-parse --abbrev-ref HEAD", "diff-index --quiet HEAD --", "fetch", "pull",
         "stash push -m \"Auto-stash before branch update <ISO time>\"",
         "log -1 --pretty=format:\"%h - %s (%cr)\"", "fetch --all --quiet", "branch -a",
         "diff --cached --numstat", "status --porcelain", "fetch --quiet", "diff --stat",
         "git log --since=\"<date>\" --pretty=format:\"%h|%an|%cr|%s\" -n 5",
         "stash push -m \"wip\"", "stash push -m \"repo-manager stash <ISO time>\"",
         "stash pop", "stash list", "reset --hard HEAD", "clean -fd",
         "ls-files --others --exclude-standard",
         "symbolic-ref refs/remotes/origin/HEAD | sed \"s@^refs/remotes/origin/@@\""}
        \cup {Concat("rev-parse --verify origin/", b) : b \in branches}
        \cup {Concat("checkout ", b) : b \in branches}
        \cup {Concat("checkout -b ", b) : b \in branches}
        \cup {Concat("push -u origin ", b) : b \in branches}
        \cup {Concat("rev-parse --abbrev-ref ", Concat(b, "@{upstream}")) : b \in branches}
        \cup {Concat("rev-list --left-right --count ", Concat(b, Concat("...origin/", b))) :
              b \in branches}

\* the package managers and the arguments they are run with
PackageManagers ==
    {Concat(m, Concat(c, " --no-interaction")) :
     m \in {"composer ", "/usr/bin/php8.2 /usr/local/bin/composer26 ",
            "/usr/bin/php8.1 /usr/local/bin/composer26 "},
     c \in {"install", "update"}}
    \cup {"npm install"}

\* the command lines of the other tools, gh and rg
OtherTools ==
    {Ripgrep(Arg(args, 1)), prListCommand(prState, isRoot)}
    \cup {GhPrCreate(TitleOf(prTitle), Undefined, FALSE, b, "main") : b \in {"REN-1"}}
    \cup {Concat(sudo, Concat("gh pr list --search \"REN-",
             Concat(t, "\" --state all --json number,title,state,url,isDraft,createdAt,author,headRefName"))) :
          sudo \in {"", "sudo -u www-data "}, t \in {"12", "99"}}
    \cup {Concat(sudo, "gh pr view 9 --json files,additions,deletions,body,reviews,comments") :
          sudo \in {"", "sudo -u www-data "}}

Counts(successfully, failedTo) ==
    (IF Where("success", TRUE) # {}
     THEN {Concat(successfully, Count(Where("success", TRUE)))} ELSE {})
    \cup (IF Failed # {} THEN {Concat(failedTo, Count(Failed))} ELSE {})

\* the lines the summary of the batch command of the run counts its results in
SummaryCounts ==
    CASE command = "update" -> Counts("Successfully updated: ", "Failed to update: ")
      [] command = "sync" -> Counts("Successfully synced: ", "Failed to sync: ")
      [] command = "create" ->
           Counts("Successfully created/checked out: ", "Failed to create branch: ")
      [] command = "pr" -> Counts("Successfully created PR(s): ", "Failed to create PR(s): ")
      [] command = "drop" ->
           CountLine(Where("success", TRUE) \cap Where("status", "changes dropped"),
                     "Dropped changes in ", TRUE)
           \cup CountLine(Where("success", TRUE) \cap Where("status", "no changes"),
                          "No changes to drop in ", TRUE)
           \cup CountLine(Failed, "Failed to process ", TRUE)
      [] OTHER -> {}

\* C17: every batch command (update, sync, drop, create, pr, stash) ends,
\* after its loop, by displaying a summary that counts the successful and the
\* failed repositories, with or without --verbose.
C17_Summary ==
    /\ command \in {"update", "sync", "drop", "create", "pr"} /\ outcome = "completed"
         => SummaryCounts \subseteq shown
    /\ command = "stash" /\ outcome = "completed"
         => "==================================================" \in shown

\* the operation of the last iteration failed: a command of search or of the
\* listing of pull requests exited with an error of the environment, or the
\* log command of recent failed
GaveUp ==
    /\ last.cmds # <<>>
    /\ \/ command = "recent"
       \/ command \in {"search", "prs"} /\ Issued(last.env.fault)

\* C18: whenever the operation fails for a repository the failure is shown
\* with the name of the service; no command, the listing of pull requests,
\* search and recent included, discards the error of a repository silently.
C18_FailureShown ==
    [][(invoked' # invoked /\ GaveUp') => shown' # shown]_vars

\* the last iteration was an update of a repository that exists
UpdatedIn == command = "update" /\ last.service # Undefined /\ existsSync(last.path, last.env)

\* the steps of an update in their order: stash if dirty, fetch, verify the
\* remote branch, checkout, pull, install the dependencies, read the commit
UpdateOrder ==
    <<RevParseHead, DiffIndex, AutoStash, gitCommand("fetch"), VerifyRemote(Arg(args, 1)),
      Checkout(Arg(args, 1)), gitCommand("pull"),
      ComposerLine(last.service, Includes(args, "--composer-update")),
      "sudo -u www-data npm install",
      gitCommand("log -1 --pretty=format:\"%h - %s (%cr)\"")>>

\* step c of the last iteration failed; the exit status of diff-index is the
\* test for uncommitted changes
StepFailed(c) ==
    /\ c # DiffIndex
    /\ \/ last.env.fault = c
       \/ c = VerifyRemote(Arg(args, 1)) /\ ~last.env.remote

\* C19: an update runs its steps in the order stash-if-dirty, fetch, verify
\* remote branch, checkout, pull, dependency installation, latest commit; the
\* failure of any step, dependency installation included, skips every later
\* step and yields success = false with the error.
C19_StepFailure ==
    UpdatedIn =>
        /\ \A j, k \in 1..Len(last.cmds) :
             j < k => IndexOf(UpdateOrder, last.cmds[j], 1) < IndexOf(UpdateOrder, last.cmds[k], 1)
        /\ \A k \in 1..Len(last.cmds) :
             StepFailed(last.cmds[k]) =>
                /\ k = Len(last.cmds)
                /\ Len(last.recs) = 1
                /\ IsFailure(last.recs[1])
                /\ last.recs[1].error
                     = (IF last.cmds[k] = VerifyRemote(Arg(args, 1)) /\ last.env.fault # last.cmds[k]
                        THEN NotInRemote(Arg(args, 1))
                        ELSE CommandFailed(last.cmds[k]))

\* the positions in the last iteration of the commands that move the branch
Moves ==
    {k \in 1..Len(last.cmds) :
       last.cmds[k] \in {gitCommand("fetch"), Checkout(Arg(args, 1)), gitCommand("pull")}}

\* C20: an update that finds uncommitted changes issues a stash push with a
\* timestamped message before any fetch, checkout or pull; with a clean
\* working tree it issues no stash command.  Stated for a diff-index that
\* exits as the working tree has it.
C20_AutoStash ==
    UpdatedIn /\ Issued(DiffIndex) /\ last.env.fault # DiffIndex =>
        IF last.env.dirty
        THEN /\ Issued("sudo -u www-data git stash push -m \"Auto-stash before branch update <ISO time>\"")
             /\ \A k \in Moves : Position(AutoStash) < k
        ELSE \A k \in 1..Len(last.cmds) :
               last.cmds[k] \notin {AutoStash, StashPush(DefaultStashMessage),
                                    gitCommand("stash pop"), gitCommand("stash list")}

\* an update stashed the changes of a dirty repository and went on to pull
C20_Witness ==
    /\ UpdatedIn /\ last.env.dirty
    /\ Issued(AutoStash) /\ Issued(gitCommand("pull"))
    /\ Position(AutoStash) < Position(gitCommand("fetch"))

----------------------------------------------------------------------------
\* sync

\* the last iteration was a sync of a repository that exists
SyncedIn == command = "sync" /\ last.service # Undefined /\ existsSync(last.path, last.env)

----------------------------------------------------------------------------
\* create

\* the last iteration was a create in a repository that exists
CreatedIn == command = "create" /\ last.service # Undefined /\ existsSync(last.path, last.env)

\* `REN-${ticketNumber}` of the run
TicketBranch == Concat("REN-", Arg(args, 1))

\* the commands of a create in their order, the last one for a branch that exists
CreateOrder ==
    <<RevParseHead, gitCommand("fetch"), gitCommand("checkout dev"), gitCommand("pull"),
      gitCommand(Concat("checkout -b ", TicketBranch)),
      gitCommand(Concat("checkout ", TicketBranch))>>

\* a command of the last iteration failed, and not checkout -b on a branch that exists
CreateFailed ==
    /\ Issued(last.env.fault)
    /\ ~(last.env.fault = CheckoutNew(TicketBranch) /\ last.env.taken)

\* C22: create issues fetch, checkout dev, pull and checkout -b REN-<ticket>
\* in that order; when the creation fails because the branch exists it checks
\* the branch out and records success = true with existing = true; a branch
\* newly created is recorded with success = true and no existing mark; any
\* other failure is recorded with success = false.
C22_CreateBranch ==
    CreatedIn =>
        /\ Len(last.cmds) <= Len(CreateOrder)
        /\ \A k \in 1..Len(last.cmds) : last.cmds[k] = CreateOrder[k]
        /\ IF CreateFailed
           THEN /\ last.cmds[Len(last.cmds)] = last.env.fault
                /\ last.recs = <<[service |-> last.service, success |-> FALSE,
                                  error |-> CommandFailed(last.env.fault)]>>
           ELSE IF last.env.taken
           THEN /\ last.cmds = CreateOrder
                /\ last.recs = <<[service |-> last.service, success |-> TRUE,
                                  branch |-> TicketBranch, existing |-> TRUE]>>
           ELSE /\ last.cmds = SubSeq(CreateOrder, 1, 5)
                /\ last.recs = <<[service |-> last.service, success |-> TRUE,
                                  branch |-> TicketBranch]>>

\* a create made the branch in the first repository and found it existing
\* in the second one
C22_Witness ==
    /\ CreatedIn /\ last.env.taken /\ Len(invoked) = 2
    /\ IsSuccess(results[1]) /\ ~Has(results[1], "existing")
    /\ IsSuccess(results[2]) /\ Has(results[2], "existing") /\ results[2].existing
    /\ Issued(Checkout(TicketBranch))

----------------------------------------------------------------------------
\* pr

\* the last iteration was a pr in a repository that exists and told its branch
PrIn ==
    /\ command = "pr" /\ last.service # Undefined /\ existsSync(last.path, last.env)
    /\ Issued(RevParseHead) /\ last.env.fault # RevParseHead

\* the push and the creation command of the last iteration
PushLine == gitCommand(Concat("push -u origin ", last.env.branch))

CreateLine ==
    Concat("gh pr create --title \"",
      Concat(TitleOf(prTitle),
        Concat("\" --body \"Auto-generated PR for ",
          Concat(last.env.branch, "\" --base main"))))

\* C23: a pr in a repository on master or main records a refusal with
\* success = false and issues no push and no creation command; on any other
\* branch push -u origin <branch> is issued, before the creation command,
\* exactly when the branch has no upstream, and a success records the URL the
\* creation command printed.  Stated for an upstream query that fails only
\* when there is no upstream.
C23_CreatePR ==
    PrIn =>
        IF last.env.branch \in {"master", "main"}
        THEN /\ Len(last.recs) = 1 /\ IsFailure(last.recs[1])
             /\ last.recs[1].error = "Cannot create PR from master/main branch"
             /\ last.cmds = <<RevParseHead>>
        ELSE /\ last.env.fault # RevParseUpstream(last.env.branch) =>
                  (Issued(PushLine) <=> ~last.env.upstream)
             /\ Issued(PushLine) /\ Issued(CreateLine) => Position(PushLine) < Position(CreateLine)
             /\ Len(last.recs) = 1
             /\ IsSuccess(last.recs[1]) <=> (Issued(CreateLine) /\ last.env.fault # CreateLine)
             /\ IsSuccess(last.recs[1]) =>
                  last.recs[1] = [service |-> last.service, success |-> TRUE,
                                  branch |-> last.env.branch, prUrl |-> "<pr url>"]

\* a pr was created in the first repository, whose branch has an upstream,
\* without a push, and in the second one after the push of its branch, which
\* had none
C23_Witness ==
    /\ PrIn /\ Len(invoked) = 2
    /\ IsSuccess(results[1]) /\ results[1].prUrl = "<pr url>"
    /\ ~last.env.upstream /\ IsSuccess(results[2])
    /\ 0 < Position(PushLine) /\ Position(PushLine) < Position(CreateLine)

----------------------------------------------------------------------------
\* prs: the multi-service flag

\* the services the pull requests of group k come from
ServicesOf(k) == {prsByTicket[k].prs[j].service : j \in 1..Len(prsByTicket[k].prs)}

\* the review command listed under "Multi-service tickets" for group k
Flagged(k) ==
    Concat("  node repo-manager.js review ",
           Concat(Join(SubSeq(prsByTicket[k].ticket, 5, Len(prsByTicket[k].ticket))),
                  " --analyze")) \in shown

\* C24: in the listing of pull requests a ticket is flagged as multi-service
\* if and only if the pull requests grouped under it come from at least two
\* different services.
C24_MultiService ==
    (command = "prs" /\ outcome = "completed" /\ results # <<>>) =>
        \A k \in 1..Len(prsByTicket) : Flagged(k) <=> Cardinality(ServicesOf(k)) >= 2

----------------------------------------------------------------------------
\* update: the log that could not be written

\* the run wrote its update log
LogWritten == \E f \in files : f.path = logFile

\* C25: after an update batch the result list is written to a timestamped
\* file in the log directory, created if absent; a failure to create the
\* directory or to write the file is reported as a warning and neither aborts
\* the command, nor changes the recorded results, nor the exit code.
C25_LogFailure ==
    UpdateRan =>
        /\ exitCode = 0
        /\ Len(results) = Len(sel)
        /\ \A f \in files : f.path = logFile => f.data = JSONstringify(results)
        /\ ~LogWritten => "Failed to save log" \in shown

----------------------------------------------------------------------------
\* review --analyze

\* a review with --analyze ended after it found a pull request
ReviewAnalysed ==
    /\ command = "review" /\ Includes(args, "--analyze")
    /\ pc = "exit" /\ results # <<>>

\* loadApiKey() gave a key and the AI module is loaded
Configured == ai.module /\ ai.apiKey \notin {Undefined, ""}

Written(path) == \E f \in files : f.path = path

C29_AnalyzerFile ==
    (ReviewAnalysed /\ ai.tmp = "writable") =>
        Written(Concat("/tmp/pr-analysis-", Concat(Arg(args, 1), ".txt")))

----------------------------------------------------------------------------
\* update: the stash and the branch afterwards

\* The stash entries the last iteration added: the pushes that succeeded less
\* the entries a pop or a drop took away.
StashAdded ==
    Cardinality({k \in 1..Len(last.cmds) :
                   last.cmds[k] = AutoStash /\ last.env.fault # AutoStash})
    - Cardinality({k \in 1..Len(last.cmds) :
                     last.cmds[k] \in {gitCommand("stash pop"), gitCommand("stash drop")}
                     /\ last.env.fault # last.cmds[k]})

\* C27: an update never issues stash pop or stash apply; the changes it
\* stashed at its start are still in the stash when it returns, whether it
\* succeeded or failed at a later step.
C27_StashKept ==
    UpdatedIn =>
        /\ \A k \in 1..Len(last.cmds) :
             last.cmds[k] \notin {"sudo -u www-data git stash pop",
                                  "sudo -u www-data git stash apply",
                                  "sudo -u www-data git stash drop"}
        /\ (Issued(AutoStash) /\ last.env.fault # AutoStash) => StashAdded = 1

\* an update stashed the changes of the third repository and failed at the
\* check of the remote branch, after two updates that succeeded
C27_Witness ==
    /\ UpdatedIn /\ Len(invoked) = 3 /\ last.env.dirty /\ ~last.env.remote
    /\ Issued(AutoStash) /\ StashAdded = 1
    /\ IsSuccess(results[1]) /\ IsSuccess(results[2]) /\ IsFailure(results[3])

\* The branch the repository of the last iteration is on afterwards: the one
\* of the last checkout that succeeded, else the one it was on.
BranchAfter ==
    LET to(c) == CASE c = Checkout("dev") -> "dev"
                   [] c = Checkout(Arg(args, 1)) -> Arg(args, 1)
                   [] c = CheckoutNew(TicketBranch) -> TicketBranch
                   [] c = Checkout(TicketBranch) -> TicketBranch
                   [] OTHER -> Undefined
        switches == {k \in 1..Len(last.cmds) :
                       /\ to(last.cmds[k]) # Undefined
                       /\ last.env.fault # last.cmds[k]
                       /\ ~(last.cmds[k] = CheckoutNew(TicketBranch) /\ last.env.taken)}
    IN  IF switches = {} THEN last.env.branch
        ELSE to(last.cmds[CHOOSE k \in switches : \A j \in switches : j <= k])

\* C28: when an update or a create records success = false for a repository,
\* the repository is still on the branch it was on before the operation.
C28_BranchKept ==
    (/\ command \in {"update", "create"} /\ last.service # Undefined
     /\ Len(last.recs) = 1 /\ IsFailure(last.recs[1]))
        => BranchAfter = last.env.branch

----------------------------------------------------------------------------
\* recent: the command lines handed to git

\* the last iteration was a recent in a repository that exists
RecentIn == command = "recent" /\ last.service # Undefined /\ existsSync(last.path, last.env)

\* the argument of gitCommand that starts with the program name
Doubled == "git log --since=\"<date>\" --pretty=format:\"%h|%an|%cr|%s\" -n 5"

\* C30: every argument of gitCommand is a git subcommand with its arguments,
\* so that each command line is `sudo -u www-data git <subcommand> ...` with
\* git as the program name only; recent issues a valid git log in every
\* repository that exists.
C30_GitSubcommand ==
    /\ {last.cmds[k] : k \in 1..Len(last.cmds)}
         \subseteq OtherTools
                   \cup {Concat("sudo -u www-data git ", a) : a \in GitArguments \ {Doubled}}
                   \cup {Concat("sudo -u www-data ", m) : m \in PackageManagers}
    /\ RecentIn =>
         last.cmds[1] = "sudo -u www-data git log --since=\"<date>\" --pretty=format:\"%h|%an|%cr|%s\" -n 5"

====
